---- MODULE Spec2Model ----
(***************************************************************************)
(* The pursuit word learner of adam (adam/learner/pursuit.py):             *)
(* PursuitLanguageLearner.observe and describe and the steps they call, as *)
(* a state machine over the learner's three tables and its random          *)
(* generator.                                                              *)
(*                                                                         *)
(* A perception graph is the set of its nodes and a pattern is the set of  *)
(* the nodes it requires; two patterns are isomorphic when the sets are    *)
(* equal.  A pattern OBJECT is one entry of a word's hypothesis dictionary *)
(* (its position in the insertion-ordered dictionary is its identity) or a *)
(* pattern built in the current step and not stored yet.                   *)
(* Scores are exact rationals [n, d] in lowest terms.                      *)
(***************************************************************************)
EXTENDS Integers, Sequences, FiniteSets, TLC

VARIABLES
    words_to_hypotheses_and_scores, \* word -> sequence of [pat, score] (a dict, insertion-ordered)
    lexicon,                        \* word -> pattern
    words_to_number_of_observations,\* word -> counter
    rng,                            \* state of the learner's random generator
    observation_num,                \* number of observe calls so far
    observe_calls_with,             \* history: word -> number of observe calls containing it
    last_call,                      \* history: what the last call did (observe: word by word)
    twin,                           \* a second learner instance: its tables and its generator
    score_near_one,                 \* a leading score in double precision: its distance below 1.0
    segmentation,                   \* a call of get_objects_from_perception on a graph: its locals
    pickling                        \* a pickle stream and what was loaded from it

vars == <<words_to_hypotheses_and_scores, lexicon, words_to_number_of_observations,
          rng, observation_num, observe_calls_with, last_call, twin,
          score_near_one, segmentation, pickling>>

---------------------------------------------------------------------------
(* Bounds of the model *)

\* observe calls in one behaviour
MaxObs == 3

\* observe calls in one behaviour of a word seen again and again
MaxRepeat == 7

\* observe calls in one behaviour of words that are new in the same observation
MaxTogether == 6

\* the doubles next below 1.0 a leading score is taken from
MaxUlps == 127


NoDeterminers == {}

\* `if word in ("a", "the"): continue`
DETERMINERS == {"a", "the"}
Words == {"a", "the", "ball", "box", "cup"}

---------------------------------------------------------------------------
(* Exact arithmetic on scores *)

RECURSIVE GCD(_, _)
GCD(a, b) == IF b = 0 THEN a ELSE GCD(b, a % b)

LCM(a, b) == (a \div GCD(a, b)) * b

Abs(x) == IF x < 0 THEN -x ELSE x

\* the rational n/d (d > 0) in lowest terms
Rat(n, d) == LET g == GCD(Abs(n), d) IN [n |-> n \div g, d |-> d \div g]

Zero == Rat(0, 1)
One == Rat(1, 1)

Add(x, y) == LET l == LCM(x.d, y.d) IN Rat(x.n * (l \div x.d) + y.n * (l \div y.d), l)

Sub(x, y) == LET l == LCM(x.d, y.d) IN Rat(x.n * (l \div x.d) - y.n * (l \div y.d), l)

Mul(x, y) ==
    LET g1 == GCD(Abs(x.n), y.d)
        g2 == GCD(Abs(y.n), x.d)
    IN  IF x.n = 0 \/ y.n = 0 THEN Zero
        ELSE Rat((x.n \div g1) * (y.n \div g2), (x.d \div g2) * (y.d \div g1))

\* x / y for y > 0
Div(x, y) == Mul(x, [n |-> y.d, d |-> y.n])

Less(x, y) == LET l == LCM(x.d, y.d) IN x.n * (l \div x.d) < y.n * (l \div y.d)

Leq(x, y) == ~Less(y, x)

\* learning factor gamma
learning_factor == Rat(1, 4)
graph_match_confirmation_threshold == Rat(1, 2)
lexicon_entry_threshold == Rat(3, 4)
smoothing_parameter == Rat(1, 16)
FourTimesSeen == 5 - 1

\* the hard-coded observation count a word must exceed to be lexicalized
MinTimesSeen == 5

---------------------------------------------------------------------------
(* Scores as Python floats.  The doubles in [1/2, 1) are the multiples of   *)
(* 2^-53; such a score is held as the number of these steps it lies below  *)
(* 1.0, and 0 is the score 1.0.                                            *)

\* n/d rounded to the nearest integer, a tie to the even one (IEEE 754 default)
RoundHalfEven(n, d) ==
    LET q == n \div d
        r == n % d
    IN  IF 2 * r > d \/ (2 * r = d /\ q % 2 = 1) THEN q + 1 ELSE q

unreinforced_double(ulps) == ulps

\* current_hypothesis_score + self._learning_factor * (1 - current_hypothesis_score)
\* on the double 1 - ulps * 2^-53: the difference 1 - score is exact, its product
\* with a learning factor that is a power of two is exact, and the sum
\* 1 - ulps * (1 - learning_factor) * 2^-53 is rounded to a double
reinforced_double(ulps) ==
    RoundHalfEven(ulps * (learning_factor.d - learning_factor.n), learning_factor.d)

---------------------------------------------------------------------------
(* The pattern matching engine and the scene segmenter *)

\* None
NoPattern == [some |-> FALSE, same |-> FALSE, nodes |-> {}]

\* Python truth value of an Optional[PerceptionGraphPattern]: not None and len > 0
Truthy(p) == p.some /\ p.nodes # {}

\* get_largest_matching_pattern(pattern, graph, ...): the pattern itself when it
\* matches, else a relaxed copy holding the nodes that match, else None.  The
\* engine is a black box to the learner: `inconsistent` is the engine answering
\* with a match object of zero nodes.
get_largest_matching_pattern(pattern, graph, inconsistent) ==
    IF inconsistent THEN [some |-> TRUE, same |-> FALSE, nodes |-> {}]
    ELSE IF pattern \subseteq graph THEN [some |-> TRUE, same |-> TRUE, nodes |-> pattern]
    ELSE IF pattern \cap graph = {} THEN NoPattern
    ELSE [some |-> TRUE, same |-> FALSE, nodes |-> pattern \cap graph]

\* PerceptionGraphPattern.check_isomorphism
check_isomorphism(p, q) == p = q

\* PerceptionGraphPattern.from_graph(g).perception_graph_pattern
from_graph(g) == g

\* the candidate objects of a scene, in the segmenter's order
get_objects_from_perception(scene) == scene.objects

\* the nodes of the whole perception graph of a scene
PerceptionGraph(scene) == UNION {scene.objects[i] : i \in 1 .. Len(scene.objects)}

\* any(pattern.matcher(graph, matching_objects=True).matches(...)): the pattern
\* matches the graph completely
matches(pattern, graph) == pattern \subseteq graph

handles_any_perception(frames) == TRUE

\* the guard at the head of observe and describe: exactly one frame, and it is a
\* DevelopmentalPrimitivePerceptionFrame; otherwise RuntimeError
perception_is_handled(frames) ==
    /\ Len(frames) = 1
    /\ frames[1] = "DevelopmentalPrimitivePerceptionFrame"

---------------------------------------------------------------------------
(* PartialMatch *)

\* (mutant) confirming on a sufficient instead of an exact match
matched_sufficiently(pm) ==
    pm.num_nodes_matched * graph_match_confirmation_threshold.d
        >= graph_match_confirmation_threshold.n * pm.num_nodes_in_pattern

\* (mutant) every partial match counts as exact
always_matched(pm) == TRUE

matched_exactly(pm) == pm.num_nodes_matched = pm.num_nodes_in_pattern

\* (mutant) the operands of the division swapped
pattern_nodes_per_matched_node(pm) ==
    IF pm.num_nodes_matched = 0 THEN Rat(pm.num_nodes_in_pattern, 1)
    ELSE Rat(pm.num_nodes_in_pattern, pm.num_nodes_matched)

\* num_nodes_matched / num_nodes_in_pattern; the caller checks the divisor
match_ratio(pm) == Rat(pm.num_nodes_matched, pm.num_nodes_in_pattern)

\* (mutant) every match object counts as a match of the whole pattern
counts_the_whole_pattern(pattern, graph, inconsistent) ==
    LET common == get_largest_matching_pattern(pattern, graph, inconsistent)
    IN  [matching_subgraph |-> common,
         num_nodes_matched |-> IF common.some THEN Cardinality(pattern) ELSE 0,
         num_nodes_in_pattern |-> Cardinality(pattern)]

\* _compute_match_ratio(pattern, graph)
compute_match_ratio(pattern, graph, inconsistent) ==
    LET common == get_largest_matching_pattern(pattern, graph, inconsistent)
    IN  [matching_subgraph |-> common,
         num_nodes_matched |-> IF Truthy(common) THEN Cardinality(common.nodes) ELSE 0,
         num_nodes_in_pattern |-> Cardinality(pattern)]

---------------------------------------------------------------------------
(* Hypothesis dictionaries *)

\* max(d, key=d.get) and max(d.items(), key=score): the first entry, in insertion
\* order, that holds the greatest score
leading_index(table) ==
    CHOOSE i \in 1 .. Len(table) :
        /\ \A j \in 1 .. Len(table) : Leq(table[j].score, table[i].score)
        /\ \A j \in 1 .. (i - 1) : Less(table[j].score, table[i].score)

\* _leading_hypothesis_for(word), for a word that has hypotheses
leading_hypothesis_for(table) == table[leading_index(table)]

\* (mutant) a confirmation weakens the score
weakened_on_confirmation(score) == Mul(score, Sub(One, learning_factor))

\* (mutant) the learning factor added to the score
raised_by_learning_factor(score) == Add(score, learning_factor)

\* Reinforce A(w,h): score + gamma * (1 - score)
reinforced(score) == Add(score, Mul(learning_factor, Sub(One, score)))

\* (mutant) the weakened score is not registered
unpenalized(score) == score

\* (mutant) a disconfirmation discards the score
dropped_to_zero(score) == Zero

\* Penalize A(w,h): score * (1 - gamma)
penalized(score) == Mul(score, Sub(One, learning_factor))

\* (mutant) the isomorphism search finds nothing
finds_no_identical_hypothesis(new_hypothesis, candidates) == 0

\* _find_identical_hypothesis: the index of the first candidate isomorphic to
\* new_hypothesis, 0 for None
find_identical_hypothesis(new_hypothesis, candidates) ==
    LET hits == {i \in 1 .. Len(candidates) :
                    check_isomorphism(new_hypothesis, candidates[i].pat)}
    IN  IF hits = {} THEN 0 ELSE CHOOSE i \in hits : \A j \in hits : i <= j

\* a pattern object: entry idx of the word's dictionary, or (idx = 0) a pattern
\* built in this step
StoredRef(table, i) == [idx |-> i, pat |-> table[i].pat]
FreshRef(pattern) == [idx |-> 0, pat |-> pattern]

\* (mutant) a pattern built in this step is always a new key
a_new_key(h, table) == IF h.idx # 0 THEN h.idx ELSE Len(table) + 1

\* the dictionary key a hypothesis to reward resolves to: its own entry when the
\* object is a key, else the isomorphic entry, else a new key (Len + 1)
hypothesis_object_to_reward(h, table) ==
    IF h.idx # 0 THEN h.idx
    ELSE LET existing == find_identical_hypothesis(h.pat, table)
         IN  IF existing # 0 THEN existing ELSE Len(table) + 1

\* (mutant) no guard against rewarding an object twice
boosts_regardless(obj, boosted) == TRUE

\* guard against the same object being rewarded twice on one update step
not_boosted_on_this_update(obj, boosted) == obj \notin boosted

\* (mutant) only the keys the dictionary holds are rewarded
rewards_stored_only(table, obj, pattern) ==
    IF obj <= Len(table)
    THEN [table EXCEPT ![obj].score = reinforced(table[obj].score)]
    ELSE table

\* hypotheses_for_word[obj] = cur + gamma * (1 - cur), cur = get(obj, 0.0)
reward(table, obj, pattern) ==
    IF obj <= Len(table)
    THEN [table EXCEPT ![obj].score = reinforced(table[obj].score)]
    ELSE Append(table, [pat |-> pattern, score |-> reinforced(Zero)])

\* the loop over hypotheses_to_reward; `done` logs, per hypothesis, the object it
\* resolved to and whether the reward was applied
RECURSIVE reward_all(_, _, _, _)
reward_all(table, to_reward, boosted, done) ==
    IF to_reward = <<>> THEN [table |-> table, done |-> done]
    ELSE LET h == Head(to_reward)
             obj == hypothesis_object_to_reward(h, table)
             fresh == not_boosted_on_this_update(obj, boosted)
         IN  reward_all(IF fresh THEN reward(table, obj, h.pat) ELSE table,
                        Tail(to_reward),
                        IF fresh THEN boosted \cup {obj} ELSE boosted,
                        Append(done, [ref |-> h, obj |-> obj, rewarded |-> fresh]))

---------------------------------------------------------------------------
(* The random generator: a deterministic sequence of draws *)

\* self._rng.choice(objects): the index drawn from a generator in state r
choice(r, n) == (r % n) + 1

\* (mutant) a draw that takes two numbers from the generator
drawn_twice(r) == r + 2

\* the generator's state after one draw
advanced(r) == r + 1

---------------------------------------------------------------------------
(* learning_step *)

\* (mutant) the relaxed rule with a strict comparison
relaxed_match_needs_more(pm) ==
    /\ Less(graph_match_confirmation_threshold,
            Rat(pm.num_nodes_matched, pm.num_nodes_in_pattern))
    /\ pm.matching_subgraph.some /\ pm.matching_subgraph.nodes # {}

\* the relaxed version of the leading pattern is introduced as a hypothesis
relaxed_match_applies(pm) ==
    /\ Leq(graph_match_confirmation_threshold, match_ratio(pm))
    /\ Truthy(pm.matching_subgraph)

\* an existing hypothesis is boosted when it matches the chosen object
boosts_existing_hypothesis(pm) ==
    Less(graph_match_confirmation_threshold, match_ratio(pm))

\* the hypotheses of the word that the loop over hypotheses_for_word boosts
RECURSIVE boosted_existing(_, _, _, _)
boosted_existing(table, i, chosen_object, inconsistent) ==
    IF i > Len(table) THEN <<>>
    ELSE LET pm == compute_match_ratio(table[i].pat, chosen_object, inconsistent)
         IN  (IF boosts_existing_hypothesis(pm) THEN <<StoredRef(table, i)>> ELSE <<>>)
             \o boosted_existing(table, i + 1, chosen_object, inconsistent)

\* what a call of learning_step that did not get to some part reports for it
NoStep ==
    [table |-> <<>>, rng |-> 0, confirmed |-> FALSE, raised |-> FALSE, branch |-> "none",
     rng_before |-> 0, weakened |-> <<>>, leading |-> 0, partial_match |-> [matching_subgraph |-> NoPattern,
                                       num_nodes_matched |-> 0, num_nodes_in_pattern |-> 0],
     chosen |-> 0, chosen_object |-> {}, ratios |-> <<>>, to_reward |-> <<>>, done |-> <<>>]

\* learning_step(word, observed_perception_graph) on the word's dictionary `table`
\* with the generator in state r; eng names the graphs on which the engine answers
\* inconsistently in this call.  confirmed is the value returned; raised says the
\* call ended in an exception, with table and rng as they were left.
learning_step(table, scene, r, eng) ==
    LET lead == leading_index(table)
        current_hypothesis_score == table[lead].score
        pm == compute_match_ratio(table[lead].pat, PerceptionGraph(scene), "scene" \in eng)
        hypothesis_is_confirmed == matched_exactly(pm)
        base == [NoStep EXCEPT !.table = table, !.rng = r, !.rng_before = r,
                               !.leading = lead,
                               !.confirmed = hypothesis_is_confirmed,
                               !.partial_match = pm]
    IN  IF hypothesis_is_confirmed /\ Truthy(pm.matching_subgraph)
        THEN [base EXCEPT !.branch = "reinforce",
                          !.table = [table EXCEPT ![lead].score =
                                        reinforced(current_hypothesis_score)]]
        ELSE
        LET weakened == [table EXCEPT ![lead].score = penalized(current_hypothesis_score)]
        IN  IF pm.num_nodes_in_pattern = 0
            THEN \* ZeroDivisionError in match_ratio()
                 [base EXCEPT !.branch = "penalize", !.table = weakened,
                              !.weakened = weakened, !.raised = TRUE]
            ELSE IF relaxed_match_applies(pm)
            THEN LET to_reward == <<IF pm.matching_subgraph.same
                                    THEN StoredRef(weakened, lead)
                                    ELSE FreshRef(pm.matching_subgraph.nodes)>>
                     res == reward_all(weakened, to_reward, {}, <<>>)
                 IN  [base EXCEPT !.branch = "relaxed", !.table = res.table,
                                  !.weakened = weakened,
                                  !.to_reward = to_reward, !.done = res.done]
            ELSE LET objects == get_objects_from_perception(scene)
                 IN  IF objects = <<>>
                     THEN \* IndexError in rng.choice([])
                          [base EXCEPT !.branch = "penalize", !.table = weakened,
                                       !.weakened = weakened, !.raised = TRUE]
                     ELSE
                     LET c == choice(r, Len(objects))
                         chosen_object == objects[c]
                         to_reward == <<FreshRef(from_graph(chosen_object))>>
                                      \o boosted_existing(weakened, 1, chosen_object,
                                                          "object" \in eng)
                         res == reward_all(weakened, to_reward, {}, <<>>)
                     IN  [base EXCEPT !.branch = "random", !.table = res.table,
                                      !.weakened = weakened,
                                      !.rng = advanced(r), !.chosen = c,
                                      !.chosen_object = chosen_object,
                                      !.ratios = [j \in 1 .. Len(weakened) |->
                                          match_ratio(compute_match_ratio(
                                              weakened[j].pat, chosen_object,
                                              "object" \in eng))],
                                      !.to_reward = to_reward, !.done = res.done]

---------------------------------------------------------------------------
(* initialization_step *)

\* the greatest of a non-empty set of scores
MaxScore(S) == CHOOSE x \in S : \A y \in S : Leq(y, x)

\* (mutant) no hypothesis of another word is looked at
unassociated(hyps, meaning) == Zero

\* max([s for every hypothesis h of every word if h.check_isomorphism(meaning)] + [0])
max_association_score(hyps, meaning) ==
    LET entries == UNION {{hyps[w][i] : i \in 1 .. Len(hyps[w])} : w \in DOMAIN hyps}
        isomorphic == {e \in entries : check_isomorphism(e.pat, meaning)}
    IN  MaxScore({Zero} \cup {e.score : e \in isomorphic})

first_meaning(hyps, meanings, i, best, min_score) == 1

\* the loop over meanings: best is the index of pattern_hypothesis so far (0 while
\* min_score is still infinite), min_score its association
RECURSIVE least_associated(_, _, _, _, _)
least_associated(hyps, meanings, i, best, min_score) ==
    IF i > Len(meanings) THEN best
    ELSE LET a == max_association_score(hyps, meanings[i])
         IN  IF best = 0 \/ Less(a, min_score)
             THEN least_associated(hyps, meanings, i + 1, i, a)
             ELSE least_associated(hyps, meanings, i + 1, best, min_score)

\* (mutant) the word's dictionary is created without a hypothesis
initialized_without_hypothesis(hyps, scene) ==
    [raised |-> FALSE, chosen |-> 0, table |-> <<>>]

\* initialization_step(word, observed_perception_graph): the word's new dictionary;
\* raised when the scene has no candidate object (first() of an empty list)
initialization_step(hyps, scene) ==
    LET objects == get_objects_from_perception(scene)
        meanings == [i \in 1 .. Len(objects) |-> from_graph(objects[i])]
    IN  IF meanings = <<>> THEN [raised |-> TRUE, table |-> <<>>, chosen |-> 0]
        ELSE LET best == least_associated(hyps, meanings, 1, 0, Zero)
             IN  [raised |-> FALSE, chosen |-> best,
                  table |-> <<[pat |-> meanings[best], score |-> learning_factor]>>]

---------------------------------------------------------------------------
(* lexicon_step *)

RECURSIVE sum_of_scores(_)
sum_of_scores(table) ==
    IF table = <<>> THEN Zero ELSE Add(Head(table).score, sum_of_scores(Tail(table)))

\* P(h|w) = (A(w,h) + lambda) / (Sum(A_w) + N * lambda) for the leading hypothesis
probability_of_meaning_given_word(table) ==
    Div(Add(leading_hypothesis_for(table).score, smoothing_parameter),
        Add(sum_of_scores(table), Mul(Rat(Len(table), 1), smoothing_parameter)))

\* (mutant) filing on the probability alone
files_on_probability_alone(probability, times_word_has_been_seen) ==
    Less(lexicon_entry_threshold, probability)

\* (mutant) filing from the fifth observation on
files_from_five_on(probability, times_word_has_been_seen) ==
    /\ Less(lexicon_entry_threshold, probability)
    /\ times_word_has_been_seen >= 5

\* the two nested conditions under which lexicon_step files the word
files_into_lexicon(probability, times_word_has_been_seen) ==
    /\ Less(lexicon_entry_threshold, probability)
    /\ times_word_has_been_seen > MinTimesSeen

\* (mutant) the word's hypotheses are kept
keeping_word(hyps, word) == hyps

\* self._words_to_hypotheses_and_scores.pop(word)
without_word(hyps, word) == [w \in DOMAIN hyps \ {word} |-> hyps[w]]

\* (mutant) the assignment replaces the dictionary
the_entry_alone(f, k, v) == [x \in {k} |-> v]

\* d[key] = value on a dict
with_entry(d, key, value) == [k \in DOMAIN d \cup {key} |-> IF k = key THEN value ELSE d[k]]

lexicon_step_dropping_table(hyps, lex, counts, word) ==
    [hyps |-> without_word(hyps, word),
     lexicon |-> lex,
     log |-> [called |-> TRUE, probability |-> Zero, times_seen |-> counts[word],
              filed |-> FALSE, leading |-> 0, hyps_before |-> hyps, lexicon_before |-> lex,
              hyps_after |-> without_word(hyps, word), lexicon_after |-> lex]]

NoLexiconStep ==
    [called |-> FALSE, probability |-> Zero, times_seen |-> 0, filed |-> FALSE,
     leading |-> 0, hyps_before |-> <<>>, lexicon_before |-> <<>>,
     hyps_after |-> <<>>, lexicon_after |-> <<>>]

\* lexicon_step(word): the two tables after it, and what it did
lexicon_step(hyps, lex, counts, word) ==
    LET table == hyps[word]
        lead == leading_index(table)
        p == probability_of_meaning_given_word(table)
        seen == counts[word]
        filed == files_into_lexicon(p, seen)
        hyps_after == IF filed THEN without_word(hyps, word) ELSE hyps
        lexicon_after == IF filed THEN with_entry(lex, word, table[lead].pat) ELSE lex
    IN  [hyps |-> hyps_after,
         lexicon |-> lexicon_after,
         log |-> [called |-> TRUE, probability |-> p, times_seen |-> seen, filed |-> filed,
                  leading |-> lead, hyps_before |-> hyps, lexicon_before |-> lex,
                  hyps_after |-> hyps_after, lexicon_after |-> lexicon_after]]

---------------------------------------------------------------------------
(* learn_with_pursuit *)

Occurrences(words, word) == Cardinality({i \in 1 .. Len(words) : words[i] = word})

NoInitialization == [raised |-> FALSE, table |-> <<>>, chosen |-> 0]

\* what the loop body did for one word: the word's counter after the increment, its
\* dictionary before and after (<<>> when it has none), and the steps it ran
StepLog(word, kind) ==
    [word |-> word, kind |-> kind, seen |-> 0, before |-> <<>>, after |-> <<>>,
     init |-> NoInitialization, update |-> NoStep, lex |-> NoLexiconStep,
     raised |-> FALSE, known |-> <<>>, lexicon_before |-> <<>>]

\* the step log completed with the word's state after the step: its dictionary
\* (<<>> for none) and its lexicon entry ({} for none)
Logged(st, log) ==
    [st EXCEPT !.steps = Append(@,
        [word |-> log.word, kind |-> log.kind, seen |-> log.seen,
         before |-> log.before, init |-> log.init, update |-> log.update,
         lex |-> log.lex, raised |-> log.raised,
         known |-> log.known, lexicon_before |-> log.lexicon_before,
         after |-> IF log.word \in DOMAIN st.hyps THEN st.hyps[log.word] ELSE <<>>,
         meaning |-> IF log.word \in DOMAIN st.lexicon THEN st.lexicon[log.word] ELSE {}])]

knows_no_meaning(lex, word) == FALSE

\* `word in self._lexicon`
knows_meaning(lex, word) == word \in DOMAIN lex

tries_lexicon_step_regardless(is_hypothesis_confirmed) == TRUE

\* `if is_hypothesis_confirmed: self.lexicon_step(word)`
tries_lexicon_step(is_hypothesis_confirmed) == is_hypothesis_confirmed

\* one iteration of `for word in observed_linguistic_description`, on the learner
\* state st = [hyps, lexicon, counts, rng, raised, steps]
process_word(st, word, scene, eng) ==
    IF word \in DETERMINERS
    THEN Logged(st, [StepLog(word, "determiner") EXCEPT
                        !.known = st.hyps, !.lexicon_before = st.lexicon])
    ELSE
    LET seen == IF word \in DOMAIN st.counts THEN st.counts[word] + 1 ELSE 1
        counted == [st EXCEPT !.counts = with_entry(st.counts, word, seen)]
    IN  IF knows_meaning(st.lexicon, word)
        THEN Logged(counted, [StepLog(word, "lexicalized") EXCEPT
                                 !.seen = seen, !.known = st.hyps,
                                 !.lexicon_before = st.lexicon])
        ELSE IF word \notin DOMAIN st.hyps
        THEN LET ini == initialization_step(st.hyps, scene)
                 log == [StepLog(word, "initialization") EXCEPT
                            !.seen = seen, !.init = ini, !.raised = ini.raised,
                            !.known = st.hyps, !.lexicon_before = st.lexicon]
             IN  IF ini.raised
                 THEN Logged([counted EXCEPT !.raised = TRUE], log)
                 ELSE Logged([counted EXCEPT
                                 !.hyps = with_entry(st.hyps, word, ini.table)], log)
        ELSE LET up == learning_step(st.hyps[word], scene, st.rng, eng)
                 updated == with_entry(st.hyps, word, up.table)
                 log == [StepLog(word, "learning") EXCEPT
                            !.seen = seen, !.before = st.hyps[word], !.update = up,
                            !.raised = up.raised, !.known = st.hyps,
                            !.lexicon_before = st.lexicon]
             IN  IF up.raised
                 THEN Logged([counted EXCEPT !.hyps = updated, !.rng = up.rng,
                                             !.raised = TRUE], log)
                 ELSE IF tries_lexicon_step(up.confirmed)
                 THEN LET lx == lexicon_step(updated, st.lexicon, counted.counts, word)
                      IN  Logged([counted EXCEPT !.hyps = lx.hyps,
                                                 !.lexicon = lx.lexicon, !.rng = up.rng],
                                 [log EXCEPT !.lex = lx.log])
                 ELSE Logged([counted EXCEPT !.hyps = updated, !.rng = up.rng], log)

\* learn_with_pursuit: the words in order, up to the first exception
RECURSIVE learn_with_pursuit(_, _, _, _)
learn_with_pursuit(st, words, scene, eng) ==
    IF words = <<>> \/ st.raised THEN st
    ELSE learn_with_pursuit(process_word(st, Head(words), scene, eng),
                            Tail(words), scene, eng)

---------------------------------------------------------------------------
(* Inputs *)

\* a perception of one frame of the supported kind showing the given candidate
\* objects (the node sets of their graphs)
Scene(objects) ==
    [frames |-> <<"DevelopmentalPrimitivePerceptionFrame">>, objects |-> objects]

Scenes ==
    { Scene(<<{1, 2, 3}>>),
      Scene(<<{1, 2}>>),
      Scene(<<{2, 4}>>),
      Scene(<<{1, 2}, {4}>>),
      Scene(<<>>) }

Utterances ==
    { <<"a", "ball">>, <<"ball", "ball">>, <<"the", "box", "ball">> }

\* the graphs on which the engine answers with an empty match object in a call
EngineAnswers == { {}, {"scene"} }

\* random_seed of from_parameters: the state the generator starts in
Seeds == {1}

seeded_by_the_clock(random_seed) == {0, 1}

\* rng = Random(); rng.seed(random_seed): the states the generator of a learner built
\* by from_parameters can start in
seeded(random_seed) == {random_seed}

---------------------------------------------------------------------------
(* describe *)

describes_no_lexicon_word(lex, graph) == {}

\* the loop over self._lexicon.items(): the lexicalized words whose pattern matches
described_from_lexicon(lex, graph) == {w \in DOMAIN lex : matches(lex[w], graph)}

describes_no_hypothesis(hyps, graph) == {}

describes_every_hypothesis(hyps, graph) == DOMAIN hyps

\* the fallback loop over self._words_to_hypotheses_and_scores.keys(): the words
\* whose leading hypothesis matches
described_from_hypotheses(hyps, graph) ==
    {w \in DOMAIN hyps : hyps[w] # <<>> /\ matches(leading_hypothesis_for(hyps[w]).pat, graph)}

\* TokenSequenceLinguisticDescription(("a", word))
learned_description(word) == <<"a", word>>

\* describe(perception) on a handled perception: description -> confidence
describe(hyps, lex, scene) ==
    LET graph == PerceptionGraph(scene)
        known == described_from_lexicon(lex, graph)
        guessed == described_from_hypotheses(hyps, graph)
    IN  IF known # {}
        THEN [d \in {learned_description(w) : w \in known} |-> One]
        ELSE [d \in {learned_description(w) : w \in guessed} |->
                 leading_hypothesis_for(hyps[d[2]]).score]

---------------------------------------------------------------------------
(* Inputs of the calls with any perception *)

\* perceptions that observe and describe reject: no frame, two frames, a frame of
\* another kind
UnhandledPerceptions ==
    { [frames |-> <<>>, objects |-> <<{1, 2}>>],
      [frames |-> <<"DevelopmentalPrimitivePerceptionFrame",
                    "DevelopmentalPrimitivePerceptionFrame">>, objects |-> <<{1, 2}>>],
      [frames |-> <<"OtherFrame">>, objects |-> <<{1, 2}>>] }

InterfacePerceptions ==
    { Scene(<<{1, 2}, {4}>>), Scene(<<{1, 2}>>), Scene(<<{2, 4}>>) } \cup UnhandledPerceptions

\* the engine never answers with an empty match object
ConsistentEngine == { {} }

InterfaceUtterances ==
    { <<"ball", "ball", "ball">>, <<"ball", "box", "ball">>, <<"the", "box">> }

---------------------------------------------------------------------------
(* The state machine *)

\* the three tables, the generator and the observation number, as a call finds
\* them
Tables ==
    [hyps |-> words_to_hypotheses_and_scores, lexicon |-> lexicon,
     counts |-> words_to_number_of_observations, rng |-> rng,
     observation_num |-> observation_num]

NoCall ==
    [op |-> "none", perception |-> Scene(<<>>), words |-> <<>>, steps |-> <<>>,
     raised |-> FALSE, descriptions |-> <<>>, again |-> FALSE, earlier |-> <<>>,
     before |-> [hyps |-> <<>>, lexicon |-> <<>>, counts |-> <<>>, rng |-> 0,
                 observation_num |-> 0]]

\* the tables and the generator of a learner just built
NewLearner(r) == [hyps |-> <<>>, lexicon |-> <<>>, counts |-> <<>>, rng |-> r]

\* two learners built by from_parameters from the same parameters, random_seed
\* among them
InitWith(random_seeds) ==
    /\ words_to_hypotheses_and_scores = <<>>
    /\ lexicon = <<>>
    /\ words_to_number_of_observations = <<>>
    /\ \E random_seed \in random_seeds :
          /\ rng \in seeded(random_seed)
          /\ \E r \in seeded(random_seed) : twin = NewLearner(r)
    /\ observation_num = 0
    /\ observe_calls_with = [w \in Words |-> 0]
    /\ last_call = NoCall

\* no leading score followed yet
NoScore == [ulps |-> 0, before |-> -1]

\* no graph being segmented
NoSegmentation ==
    [pc |-> "none", graph |-> {}, roots |-> <<>>, root |-> 0,
     all_object_perception_nodes |-> {}, frontier |-> {}, passes |-> 0,
     meanings |-> <<>>]

\* nothing pickled
NoPickling == [stream |-> <<>>, dumped |-> <<>>, loaded |-> <<>>, raised |-> FALSE]

Init ==
    /\ InitWith(Seeds)
    /\ score_near_one = NoScore
    /\ segmentation = NoSegmentation
    /\ pickling = NoPickling

\* observe(learning_example); observe_calls_with counts the calls that reach
\* learn_with_pursuit with the word in their token sequence
observe(perception, words, eng) ==
    /\ observation_num' = observation_num + 1
    /\ UNCHANGED <<segmentation, pickling>>
    /\ IF perception_is_handled(perception.frames)
       THEN /\ \E st \in {learn_with_pursuit(
                            [hyps |-> words_to_hypotheses_and_scores, lexicon |-> lexicon,
                             counts |-> words_to_number_of_observations, rng |-> rng,
                             raised |-> FALSE, steps |-> <<>>],
                            words, perception, eng)} :
                   /\ words_to_hypotheses_and_scores' = st.hyps
                   /\ lexicon' = st.lexicon
                   /\ words_to_number_of_observations' = st.counts
                   /\ rng' = st.rng
                   /\ last_call' = [NoCall EXCEPT !.op = "observe",
                                       !.perception = perception, !.words = words,
                                       !.steps = st.steps, !.raised = st.raised,
                                       !.before = Tables]
            /\ observe_calls_with' =
                  [w \in Words |-> observe_calls_with[w]
                                   + (IF Occurrences(words, w) > 0 THEN 1 ELSE 0)]
            /\ UNCHANGED score_near_one
       ELSE /\ last_call' = [NoCall EXCEPT !.op = "observe", !.perception = perception,
                                !.words = words, !.raised = TRUE, !.before = Tables]
            /\ UNCHANGED <<words_to_hypotheses_and_scores, lexicon,
                           words_to_number_of_observations, rng, observe_calls_with,
                           score_near_one>>

\* the same call on the second learner
observed(learner, perception, words, eng) ==
    IF perception_is_handled(perception.frames)
    THEN LET st == learn_with_pursuit(
                      [hyps |-> learner.hyps, lexicon |-> learner.lexicon,
                       counts |-> learner.counts, rng |-> learner.rng,
                       raised |-> FALSE, steps |-> <<>>],
                      words, perception, eng)
         IN  {[hyps |-> s.hyps, lexicon |-> s.lexicon, counts |-> s.counts, rng |-> s.rng] :
                 s \in {st}}
    ELSE {learner}

\* one observe call on the learner
Observe(perception, words, eng) ==
    /\ observation_num < MaxObs
    /\ observe(perception, words, eng)
    /\ UNCHANGED twin

\* the same observe call on both learners
ObserveBoth(perception, words, eng) ==
    /\ observation_num < MaxObs
    /\ observe(perception, words, eng)
    /\ twin' \in observed(twin, perception, words, eng)

\* the call before this one was describe on the same perception and returned
RepeatsDescribe(perception) ==
    /\ last_call.op = "describe"
    /\ last_call.perception = perception
    /\ ~last_call.raised

\* what describe(perception) reports: the mapping it returns or that it raised,
\* and, when it repeats the call before it, the mapping that call returned
Described(perception) ==
    IF perception_is_handled(perception.frames)
    THEN [NoCall EXCEPT !.op = "describe", !.perception = perception,
             !.descriptions = describe(words_to_hypotheses_and_scores, lexicon,
                                       perception),
             !.again = RepeatsDescribe(perception),
             !.earlier = IF RepeatsDescribe(perception)
                         THEN last_call.descriptions ELSE <<>>,
             !.before = Tables]
    ELSE [NoCall EXCEPT !.op = "describe", !.perception = perception,
             !.raised = TRUE, !.before = Tables]

\* (mutant) describe forgets the leading hypotheses it looked at
DescribeAndForget(perception) ==
    /\ last_call' = Described(perception)
    /\ words_to_hypotheses_and_scores' =
          IF perception_is_handled(perception.frames)
          THEN [w \in {x \in DOMAIN words_to_hypotheses_and_scores :
                          learned_description(x) \notin
                              DOMAIN describe(words_to_hypotheses_and_scores,
                                              lexicon, perception)} |->
                   words_to_hypotheses_and_scores[w]]
          ELSE words_to_hypotheses_and_scores
    /\ UNCHANGED <<lexicon, words_to_number_of_observations, rng, observation_num,
                   observe_calls_with, twin, score_near_one, segmentation, pickling>>

\* describe(perception)
Describe(perception) ==
    /\ last_call' = Described(perception)
    /\ UNCHANGED <<words_to_hypotheses_and_scores, lexicon,
                   words_to_number_of_observations, rng, observation_num,
                   observe_calls_with, twin, score_near_one, segmentation, pickling>>

\* observe on single supported frames
Next == \E scene \in Scenes, words \in Utterances, eng \in EngineAnswers :
            Observe(scene, words, eng)

Spec == Init /\ [][Next]_vars

\* observe and describe on any perception
NextInterface ==
    \/ \E perception \in InterfacePerceptions, words \in InterfaceUtterances,
          eng \in ConsistentEngine :
           Observe(perception, words, eng)
    \/ \E perception \in InterfacePerceptions : Describe(perception)

SpecInterface == Init /\ [][NextInterface]_vars

\* the inputs fed to the two learners
TwinSeeds == {0, 1}

TwinScenes == { Scene(<<{1, 2}, {4}>>), Scene(<<{1, 2}>>), Scene(<<{2, 4}>>) }

TwinUtterances == { <<"ball", "ball">>, <<"the", "box", "ball">> }

InitTwin ==
    /\ InitWith(TwinSeeds)
    /\ score_near_one = NoScore
    /\ segmentation = NoSegmentation
    /\ pickling = NoPickling

\* two learners observing the same sequence, the engine and the segmenter
\* answering both alike
NextTwin == \E scene \in TwinScenes, words \in TwinUtterances, eng \in EngineAnswers :
                ObserveBoth(scene, words, eng)

SpecTwin == InitTwin /\ [][NextTwin]_vars

\* a word observed again and again, once in each word sequence, in scenes whose
\* first candidate object is the same, and the scenes shown to describe
RepeatScenes == { Scene(<<{1, 2}>>), Scene(<<{1, 2}, {4}>>) }

RepeatUtterances == { <<"ball">>, <<"a", "ball">>, <<"the", "ball">> }

DescribedScenes ==
    RepeatScenes \cup { Scene(<<{1, 2, 3}>>), Scene(<<{2, 4}>>), Scene(<<>>) }

\* one more observe call of the repeated word
ObserveAgain(perception, words) ==
    /\ observation_num < MaxRepeat
    /\ observe(perception, words, {})
    /\ UNCHANGED twin

NextRepeat ==
    \/ \E perception \in RepeatScenes, words \in RepeatUtterances :
           ObserveAgain(perception, words)
    \/ \E perception \in DescribedScenes : Describe(perception)

SpecRepeat == Init /\ [][NextRepeat]_vars

\* words that are new in the same observation: scenes without, with two and with
\* three candidate objects
TogetherScenes == { Scene(<<>>), Scene(<<{1, 2}, {4}>>), Scene(<<{3}, {1, 2}, {4}>>) }

TogetherUtterances == { <<"cup">>, <<"ball", "box">>, <<"ball", "ball", "box">> }

\* one observe call of these
ObserveTogether(perception, words) ==
    /\ observation_num < MaxTogether
    /\ observe(perception, words, {})
    /\ UNCHANGED twin

NextTogether == \E perception \in TogetherScenes, words \in TogetherUtterances :
                    ObserveTogether(perception, words)

SpecTogether == Init /\ [][NextTogether]_vars

\* a leading score among the doubles next below 1.0
InitNearOne ==
    /\ InitWith(Seeds)
    /\ score_near_one \in {[ulps |-> k, before |-> -1] : k \in 2 .. MaxUlps}
    /\ segmentation = NoSegmentation
    /\ pickling = NoPickling

\* the reinforcement of learning_step on that score: the leading hypothesis is
\* confirmed once more
Reinforce ==
    /\ score_near_one' = [ulps |-> reinforced_double(score_near_one.ulps),
                          before |-> score_near_one.ulps]
    /\ UNCHANGED <<words_to_hypotheses_and_scores, lexicon,
                   words_to_number_of_observations, rng, observation_num,
                   observe_calls_with, last_call, twin, segmentation, pickling>>

NextNearOne == Reinforce

SpecNearOne == InitNearOne /\ [][NextNearOne]_vars

---------------------------------------------------------------------------
(* get_objects_from_perception on a perception graph *)

\* the nodes of the graphs: the ground, three object perceptions, a property, a
\* colour and a region whose reference object is object 3
GROUND == 0
ObjectPerceptions == {0, 1, 2, 3}
PropertyNode == 4
RgbColorPerception == 5
Region == 6
reference_object(region) == 3

\* node.debug_handle
debug_handle(node) == IF node = GROUND THEN "the ground" ELSE "object"

\* the edges every graph has: <<u, v, label>>
OtherEdges ==
    { <<1, PropertyNode, "has-property">>, <<2, RgbColorPerception, "has-color">>,
      <<1, Region, "in-region">>, <<Region, 3, "reference-object">>,
      <<3, GROUND, "on">> }

\* the partOf edges a graph may have: any among the three objects, loops and
\* cycles included
PartOfPairs == (ObjectPerceptions \ {GROUND}) \X (ObjectPerceptions \ {GROUND})

PerceptionGraphs ==
    { [nodes |-> ObjectPerceptions \cup {PropertyNode, RgbColorPerception, Region},
       edges |-> OtherEdges \cup {<<e[1], e[2], "partOf">> : e \in part_of}] :
          part_of \in SUBSET PartOfPairs }

\* perception_as_graph.neighbors(node), in the undirected copy
neighbors(graph, node) ==
    {m \in graph.nodes :
        \E e \in graph.edges : \/ e[1] = node /\ e[2] = m
                               \/ e[1] = m /\ e[2] = node}

\* str(perception_as_digraph.get_edge_data(u, v, default=-1)["label"]), "-1" for
\* the default
get_edge_data(graph, u, v) ==
    IF \E e \in graph.edges : e[1] = u /\ e[2] = v
    THEN (CHOOSE e \in graph.edges : e[1] = u /\ e[2] = v)[3]
    ELSE "-1"

\* the elements of a set of nodes in the order of the graph's node list
RECURSIVE in_node_order(_)
in_node_order(nodes) ==
    IF nodes = {} THEN <<>>
    ELSE LET least == CHOOSE n \in nodes : \A m \in nodes : n <= m
         IN  <<least>> \o in_node_order(nodes \ {least})

\* 1) the object perceptions other than the ground that are the source of no
\* partOf edge
root_object_percetion_nodes(graph) ==
    in_node_order({node \in graph.nodes :
        /\ node \in ObjectPerceptions
        /\ debug_handle(node) # "the ground"
        /\ ~\E e \in graph.edges : e[1] = node /\ e[3] = "partOf"})

\* one pass of the while loop over the frontier: the neighbours with a partOf
\* edge to a frontier node
new_frontier(graph, frontier) ==
    {node \in graph.nodes :
        \E frontier_node \in frontier :
            /\ node \in neighbors(graph, frontier_node)
            /\ get_edge_data(graph, node, frontier_node) = "partOf"}

\* 3) the neighbours kept with the objects: no region whose reference object is
\* outside, no colour, no object perception
other_nodes(graph, all_nodes) ==
    {neighbor \in graph.nodes :
        /\ \E node \in all_nodes : neighbor \in neighbors(graph, node)
        /\ ~(\/ neighbor = Region /\ reference_object(neighbor) \notin all_nodes
             \/ neighbor = RgbColorPerception)
        /\ neighbor \notin ObjectPerceptions}

\* the walk from the root at position i of roots
WalkFrom(seg, i) ==
    [seg EXCEPT !.pc = "while", !.root = i,
                !.all_object_perception_nodes = {seg.roots[i]},
                !.frontier = {seg.roots[i]}, !.passes = 0]

\* a call of get_objects_from_perception on some graph.  The lists frontier and
\* all_object_perception_nodes are held as the sets of their elements: the loops
\* run over the elements and subgraph() takes the node set; passes is the parity
\* of the number of passes of the while loop made for the root.
InitSegmenter ==
    /\ InitWith(Seeds)
    /\ score_near_one = NoScore
    /\ pickling = NoPickling
    /\ segmentation \in {[NoSegmentation EXCEPT !.pc = "called", !.graph = g] :
                            g \in PerceptionGraphs}

OnlySegmentation ==
    UNCHANGED <<words_to_hypotheses_and_scores, lexicon, words_to_number_of_observations,
                rng, observation_num, observe_calls_with, last_call, twin,
                score_near_one, pickling>>

\* step 1: the root object perceptions
FindRoots ==
    /\ segmentation.pc = "called"
    /\ LET found == [segmentation EXCEPT
                        !.roots = root_object_percetion_nodes(segmentation.graph)]
       IN  segmentation' = IF found.roots = <<>>
                           THEN [found EXCEPT !.pc = "returned"]
                           ELSE WalkFrom(found, 1)
    /\ OnlySegmentation

\* one iteration of `while updated`
WhileUpdated ==
    /\ segmentation.pc = "while"
    /\ LET found == new_frontier(segmentation.graph, segmentation.frontier)
       IN  segmentation' =
             IF found # {}
             THEN [segmentation EXCEPT
                      !.all_object_perception_nodes = @ \cup found,
                      !.frontier = found, !.passes = 1 - @]
             ELSE [segmentation EXCEPT !.pc = "subgraph", !.passes = 1 - @]
    /\ OnlySegmentation

\* step 3 and meanings.append for the root walked from, then the next root or
\* the return
AppendMeaning ==
    /\ segmentation.pc = "subgraph"
    /\ LET all_nodes == segmentation.all_object_perception_nodes
           appended == [segmentation EXCEPT !.meanings = Append(@,
                          [root |-> segmentation.roots[segmentation.root],
                           nodes |-> all_nodes
                                     \cup other_nodes(segmentation.graph, all_nodes)])]
       IN  segmentation' = IF segmentation.root < Len(segmentation.roots)
                           THEN WalkFrom(appended, segmentation.root + 1)
                           ELSE [appended EXCEPT !.pc = "returned"]
    /\ OnlySegmentation

NextSegmenter == FindRoots \/ WhileUpdated \/ AppendMeaning

\* the call keeps running until it returns
SpecSegmenter == InitSegmenter /\ [][NextSegmenter]_vars /\ WF_vars(NextSegmenter)

---------------------------------------------------------------------------
(* AdamPickler.persistent_id and AdamUnpickler.persistent_load *)

MaxPickled == 3

PERSISTENT_AXIS_TAG == "PersistentAxis"
PERSISTENT_OBJECT_PERCEPTION_TAG == "PersistentObjectPerception"

\* the objects there is one of
GROUND_PERCEPTION == [class |-> "ObjectPerception", name |-> "the ground", id |-> 1]
LEARNER_PERCEPTION == [class |-> "ObjectPerception", name |-> "learner", id |-> 2]
GRAVITATIONAL_UP == [class |-> "GeonAxis", name |-> "gravitational-up", id |-> 3]
GRAVITATIONAL_DOWN == [class |-> "GeonAxis", name |-> "gravitational-down", id |-> 4]

SHARED_WORLD_ITEMS ==
    {GROUND_PERCEPTION, LEARNER_PERCEPTION, GRAVITATIONAL_UP, GRAVITATIONAL_DOWN}

\* the objects handed to the pickler: the shared ones, an axis and an object
\* perception of some object in a scene, and an object of another class
PickledObjects ==
    SHARED_WORLD_ITEMS \cup
    { [class |-> "GeonAxis", name |-> "gravitational-up", id |-> 5],
      [class |-> "ObjectPerception", name |-> "ball_0", id |-> 6],
      [class |-> "str", name |-> "ball", id |-> 7] }

\* None
None == <<>>

\* AdamPickler.persistent_id; the field name is obj.debug_name of an axis and
\* obj.debug_handle of an object perception
persistent_id(obj) ==
    IF obj.class = "GeonAxis"
    THEN IF obj \in SHARED_WORLD_ITEMS
         THEN <<PERSISTENT_AXIS_TAG, obj.name>>
         ELSE None
    ELSE IF obj.class = "ObjectPerception"
    THEN IF obj = GROUND_PERCEPTION \/ obj = LEARNER_PERCEPTION
         THEN <<PERSISTENT_OBJECT_PERCEPTION_TAG, obj.name>>
         ELSE None
    ELSE None

\* what persistent_load does: the object it returns, or that it raised
\* RuntimeError
Loaded(obj) == [raised |-> FALSE, obj |-> obj]
RuntimeError == [raised |-> TRUE, obj |-> None]

\* AdamUnpickler.persistent_load
persistent_load(persistence_id) ==
    IF Len(persistence_id) < 1 THEN RuntimeError
    ELSE LET tag == persistence_id[1]
         IN  IF tag = PERSISTENT_AXIS_TAG
             THEN LET name == persistence_id[2]
                      found == {axis \in SHARED_WORLD_ITEMS :
                                   axis.class = "GeonAxis" /\ axis.name = name}
                  IN  IF found # {} THEN Loaded(CHOOSE axis \in found : TRUE)
                      ELSE RuntimeError
             ELSE IF tag = PERSISTENT_OBJECT_PERCEPTION_TAG
             THEN LET name == persistence_id[2]
                  IN  IF name = GROUND_PERCEPTION.name
                      THEN Loaded(GROUND_PERCEPTION)
                      ELSE RuntimeError
             ELSE RuntimeError

\* a pickler and an unpickler on one stream
InitPickle ==
    /\ InitWith(Seeds)
    /\ score_near_one = NoScore
    /\ segmentation = NoSegmentation
    /\ pickling = NoPickling

OnlyPickling ==
    UNCHANGED <<words_to_hypotheses_and_scores, lexicon, words_to_number_of_observations,
                rng, observation_num, observe_calls_with, last_call, twin,
                score_near_one, segmentation>>

\* the pickler meets obj: its persistent id goes to the stream, or, for None,
\* the object by value
Dump(obj) ==
    /\ Len(pickling.stream) < MaxPickled
    /\ pickling.loaded = <<>> /\ ~pickling.raised
    /\ pickling' = [pickling EXCEPT
                       !.dumped = Append(@, obj),
                       !.stream = Append(@,
                           IF persistent_id(obj) # None
                           THEN [persistent |-> TRUE, pid |-> persistent_id(obj),
                                 value |-> None]
                           ELSE [persistent |-> FALSE, pid |-> None, value |-> obj])]
    /\ OnlyPickling

\* the unpickler meets the next entry of the stream: persistent_load for a
\* persistent id
Load ==
    /\ ~pickling.raised
    /\ Len(pickling.loaded) < Len(pickling.stream)
    /\ LET entry == pickling.stream[Len(pickling.loaded) + 1]
           got == IF entry.persistent THEN persistent_load(entry.pid)
                  ELSE Loaded(entry.value)
       IN  pickling' = IF got.raised
                       THEN [pickling EXCEPT !.raised = TRUE]
                       ELSE [pickling EXCEPT !.loaded = Append(@, got.obj)]
    /\ OnlyPickling

NextPickle == (\E obj \in PickledObjects : Dump(obj)) \/ Load

SpecPickle == InitPickle /\ [][NextPickle]_vars

---------------------------------------------------------------------------
(* Properties.  The formulas restate the arithmetic they expect: RewardOf and  *)
(* PenaltyOf are the update rules as the specification words them.            *)

HypothesisWords == DOMAIN words_to_hypotheses_and_scores
LexiconWords == DOMAIN lexicon

Steps == last_call.steps
LearningSteps == {i \in 1 .. Len(Steps) : Steps[i].kind = "learning"}

\* score + gamma * (1 - score)
RewardOf(x) == Add(x, Mul(learning_factor, Sub(One, x)))
\* score * (1 - gamma)
PenaltyOf(x) == Mul(x, Sub(One, learning_factor))

\* C1: no word is at once a key of the hypothesis table and a key of the lexicon
C1_MutualExclusion == HypothesisWords \cap LexiconWords = {}

\* C1: a word that had hypotheses has just been filed into the lexicon
C1_Witness ==
    \E i \in 1 .. Len(Steps) :
        /\ Steps[i].lex.filed
        /\ Steps[i].before # <<>>
        /\ Steps[i].word \in LexiconWords

\* C2: every word in the lexicon has an observation counter of at least 6, and a
\* step that files a word runs with the word's counter above 5
C2_LexiconCounterAtLeastSix ==
    /\ \A w \in LexiconWords :
          /\ w \in DOMAIN words_to_number_of_observations
          /\ words_to_number_of_observations[w] >= 6
    /\ \A i \in 1 .. Len(Steps) : Steps[i].lex.filed => Steps[i].seen > 5

\* C2: a word is filed at the step that brings its counter to exactly 6
C2_Witness ==
    \E i \in 1 .. Len(Steps) :
        /\ Steps[i].lex.filed
        /\ Steps[i].seen = 6
        /\ Steps[i].word \in LexiconWords

\* C3: a word in the lexicon has been contained in at least 6 observe calls
C3_LexiconNeedsSixObserveCalls ==
    \A w \in LexiconWords : observe_calls_with[w] >= 6

\* the calls of learning_step that went on after weakening the leading hypothesis
Disconfirmations ==
    {i \in LearningSteps : Steps[i].update.branch \in {"relaxed", "random"}}

\* the leading hypothesis matched exactly and a matching subgraph was returned
ExactWithSubgraph(u) ==
    /\ u.partial_match.num_nodes_matched = u.partial_match.num_nodes_in_pattern
    /\ u.partial_match.matching_subgraph.some

\* the entry of `table` a hypothesis marked for reward stands for: itself when it is
\* an entry, else the entry isomorphic to it, else a new entry
TargetOf(h, table) ==
    IF h.idx # 0 THEN h.idx
    ELSE IF \E j \in 1 .. Len(table) : table[j].pat = h.pat
         THEN CHOOSE j \in 1 .. Len(table) : table[j].pat = h.pat
         ELSE Len(table) + 1

Targets(u) == {TargetOf(u.to_reward[k], u.weakened) : k \in 1 .. Len(u.to_reward)}

ScoreIn(table, j) == IF j <= Len(table) THEN table[j].score ELSE Zero

\* C4: in one call of learning_step every entry that a hypothesis marked for reward
\* resolves to ends with the reward formula applied exactly once to the score it had
\* after the penalization (0 for a new entry), however often it was marked, and every
\* other entry keeps its score; this holds in every call, so no mark carries over
C4_NoDoubleReward ==
    \A i \in Disconfirmations :
        LET u == Steps[i].update
        IN  /\ \A j \in Targets(u) : j <= Len(u.table)
            /\ \A j \in 1 .. Len(u.table) :
                  u.table[j].score = IF j \in Targets(u)
                                     THEN RewardOf(ScoreIn(u.weakened, j))
                                     ELSE ScoreIn(u.weakened, j)

\* the engine answered the query for the leading hypothesis with a match object of
\* zero nodes
EmptyMatchObject(u) ==
    /\ u.partial_match.matching_subgraph.some
    /\ u.partial_match.matching_subgraph.nodes = {}

\* C4: one stored hypothesis, not the leading one, is marked twice in one call: as
\* the chosen object's pattern and as an existing hypothesis that matches the object
C4_Witness ==
    \E i \in Disconfirmations :
        LET u == Steps[i].update
        IN  \E k \in 2 .. Len(u.to_reward) :
                /\ ~EmptyMatchObject(u)
                /\ u.to_reward[1].idx = 0
                /\ u.to_reward[k].idx # u.leading
                /\ TargetOf(u.to_reward[1], u.weakened) = u.to_reward[k].idx

\* C5: no hypothesis table holds two entries isomorphic to each other, and a
\* hypothesis marked for reward that is isomorphic to a stored entry rewards that
\* entry and inserts nothing
C5_NoIsomorphicDuplicates ==
    /\ \A w \in HypothesisWords :
          LET t == words_to_hypotheses_and_scores[w]
          IN  \A j, k \in 1 .. Len(t) : j # k => t[j].pat # t[k].pat
    /\ \A i \in Disconfirmations :
          LET u == Steps[i].update
          IN  \A k \in 1 .. Len(u.to_reward) :
                \A j \in 1 .. Len(Steps[i].before) :
                    (u.to_reward[k].idx = 0 /\ Steps[i].before[j].pat = u.to_reward[k].pat)
                    => /\ Len(u.table) = Len(Steps[i].before)
                       /\ u.table[j].score = RewardOf(u.weakened[j].score)

\* C5: a pattern built in the step is isomorphic to a stored entry of the word
C5_Witness ==
    \E i \in Disconfirmations :
        LET u == Steps[i].update
        IN  /\ u.to_reward[1].idx = 0
            /\ \E j \in 1 .. Len(Steps[i].before) :
                  Steps[i].before[j].pat = u.to_reward[1].pat
            /\ Steps[i].word \in HypothesisWords

\* C6: learning_step returns "confirmed" exactly when the leading hypothesis matched
\* exactly and a subgraph was returned; exactly then the leading score becomes
\* old + gamma * (1 - old) and nothing is penalized; otherwise it is penalized
C6_ConfirmedIffExactMatch ==
    \A i \in LearningSteps :
        LET u == Steps[i].update
            old == Steps[i].before[u.leading].score
        IN  /\ u.confirmed <=> ExactWithSubgraph(u)
            /\ ExactWithSubgraph(u) <=> u.table[u.leading].score = RewardOf(old)
            /\ u.confirmed =>
                  /\ u.weakened = <<>>
                  /\ u.table = [Steps[i].before EXCEPT ![u.leading].score = RewardOf(old)]
            /\ ~u.confirmed => u.weakened[u.leading].score = PenaltyOf(old)

\* C6: a call confirmed the leading hypothesis
C6_Witness ==
    \E i \in LearningSteps :
        /\ Steps[i].update.confirmed
        /\ Steps[i].update.branch = "reinforce"
        /\ Len(Steps[i].before) > 1

\* C7: on every disconfirmation the leading score is first set to old * (1 - gamma)
\* and the call returns "not confirmed"; no call of learning_step removes an entry
C7_PenalizedNeverRemoved ==
    \A i \in LearningSteps :
        LET u == Steps[i].update
            before == Steps[i].before
        IN  /\ ~ExactWithSubgraph(u) =>
                  /\ ~u.confirmed
                  /\ u.weakened =
                        [before EXCEPT ![u.leading].score = PenaltyOf(before[u.leading].score)]
            /\ Len(u.table) >= Len(before)
            /\ \A j \in 1 .. Len(before) : u.table[j].pat = before[j].pat

\* C7: a disconfirmation penalized the leading hypothesis and introduced another
C7_Witness ==
    \E i \in Disconfirmations :
        /\ Len(Steps[i].update.table) > Len(Steps[i].before)
        /\ Steps[i].update.table[Steps[i].update.leading].score
              = PenaltyOf(Steps[i].before[Steps[i].update.leading].score)

\* the match ratio of the leading hypothesis against the scene, for a non-empty
\* pattern
LeadingRatio(u) ==
    Rat(u.partial_match.num_nodes_matched, u.partial_match.num_nodes_in_pattern)

\* a disconfirmation to which the relaxed-match rule applies: ratio >= threshold,
\* equality included, and a non-empty subgraph returned
RelaxedCase(u) ==
    /\ ~ExactWithSubgraph(u)
    /\ ~Less(LeadingRatio(u), graph_match_confirmation_threshold)
    /\ u.partial_match.matching_subgraph.some
    /\ u.partial_match.matching_subgraph.nodes # {}

\* C8: when the relaxed-match rule applies, the returned subgraph is the only
\* hypothesis marked for reward: no object is drawn (the generator is left alone)
\* and every entry other than the one the subgraph resolves to keeps its weakened
\* score
C8_RelaxedRewardsOnlySubgraph ==
    \A i \in LearningSteps :
        LET u == Steps[i].update
            sub == [idx |-> 0, pat |-> u.partial_match.matching_subgraph.nodes]
        IN  RelaxedCase(u) =>
                /\ u.to_reward = <<sub>>
                /\ u.chosen = 0
                /\ u.rng = u.rng_before
                /\ Len(u.table) <= Len(u.weakened) + 1
                /\ \A j \in 1 .. Len(u.weakened) :
                      j # TargetOf(sub, u.weakened)
                      => u.table[j].score = u.weakened[j].score

\* C8: the rule applied with the ratio equal to the threshold
C8_Witness ==
    \E i \in LearningSteps :
        /\ RelaxedCase(Steps[i].update)
        /\ LeadingRatio(Steps[i].update) = graph_match_confirmation_threshold
        /\ Steps[i].update.to_reward # <<>>

\* the stored hypotheses with an index in J, in dictionary order from entry j on
RECURSIVE StoredFrom(_, _, _)
StoredFrom(table, j, J) ==
    IF j > Len(table) THEN <<>>
    ELSE (IF j \in J THEN <<[idx |-> j, pat |-> table[j].pat]>> ELSE <<>>)
         \o StoredFrom(table, j + 1, J)

\* C9: when the relaxed-match rule does not apply, the hypotheses marked for reward
\* are the chosen object's pattern and every OTHER hypothesis of the word, not the
\* leading one, whose ratio against the chosen object is above the threshold
C9_RewardsChosenAndOtherHypotheses ==
    \A i \in LearningSteps :
        LET u == Steps[i].update
            Other == {j \in 1 .. Len(u.ratios) :
                         /\ j # u.leading
                         /\ Less(graph_match_confirmation_threshold, u.ratios[j])}
        IN  (~ExactWithSubgraph(u) /\ ~RelaxedCase(u) /\ ~u.raised) =>
                /\ u.chosen # 0
                /\ u.to_reward = <<[idx |-> 0, pat |-> u.chosen_object]>>
                                 \o StoredFrom(u.weakened, 1, Other)

\* C9 without the exclusion of the leading hypothesis (what the loop does)
C9_RewardsChosenAndMatchingHypotheses ==
    \A i \in LearningSteps :
        LET u == Steps[i].update
            Matching == {j \in 1 .. Len(u.ratios) :
                            Less(graph_match_confirmation_threshold, u.ratios[j])}
        IN  (~ExactWithSubgraph(u) /\ ~RelaxedCase(u) /\ ~u.raised) =>
                /\ u.chosen # 0
                /\ u.to_reward = <<[idx |-> 0, pat |-> u.chosen_object]>>
                                 \o StoredFrom(u.weakened, 1, Matching)

\* the steps in which lexicon_step ran
LexiconSteps == {i \in 1 .. Len(Steps) : Steps[i].lex.called}

RECURSIVE SumOf(_)
SumOf(scores) == IF scores = <<>> THEN Zero ELSE Add(Head(scores), SumOf(Tail(scores)))

\* P > threshold for P = (s + lambda) / (Sigma + n * lambda), s the greatest score of
\* the table: s + lambda > threshold * (Sigma + n * lambda)
PosteriorAboveThreshold(table) ==
    LET scores == [j \in 1 .. Len(table) |-> table[j].score]
        s == MaxScore({scores[j] : j \in 1 .. Len(scores)})
        sigma == SumOf(scores)
    IN  Less(Mul(lexicon_entry_threshold,
                 Add(sigma, Mul(Rat(Len(table), 1), smoothing_parameter))),
             Add(s, smoothing_parameter))

\* C10: lexicon_step files the word if and only if P, computed from the scores after
\* the confirming update, is above the lexicon entry threshold and the word's counter
\* is above 5; then the leading pattern becomes the word's lexicon entry and the
\* word's hypothesis table is deleted; otherwise both tables are unchanged
C10_LexicalizerCommitsIff ==
    \A i \in LexiconSteps :
        LET lx == Steps[i].lex
            w == Steps[i].word
            table == Steps[i].update.table
            s == MaxScore({table[j].score : j \in 1 .. Len(table)})
            lead == CHOOSE j \in 1 .. Len(table) :
                        /\ table[j].score = s
                        /\ \A k \in 1 .. (j - 1) : table[k].score # s
        IN  /\ lx.hyps_before[w] = table
            /\ lx.filed <=> (PosteriorAboveThreshold(table) /\ Steps[i].seen > 5)
            /\ lx.filed =>
                  /\ DOMAIN lx.lexicon_after = DOMAIN lx.lexicon_before \cup {w}
                  /\ lx.lexicon_after[w] = table[lead].pat
                  /\ \A v \in DOMAIN lx.lexicon_before : lx.lexicon_after[v] = lx.lexicon_before[v]
                  /\ DOMAIN lx.hyps_after = DOMAIN lx.hyps_before \ {w}
                  /\ \A v \in DOMAIN lx.hyps_after : lx.hyps_after[v] = lx.hyps_before[v]
            /\ ~lx.filed =>
                  /\ lx.lexicon_after = lx.lexicon_before
                  /\ lx.hyps_after = lx.hyps_before

\* C10: a word with several hypotheses is filed
C10_Witness ==
    \E i \in LexiconSteps :
        /\ Steps[i].lex.filed
        /\ Len(Steps[i].update.table) > 1
        /\ Steps[i].word \in LexiconWords

\* reachability of the other cases of C10: the counter is above 5 and P is not above
\* the threshold; P is above the threshold and the counter is not above 5
C10_HeldBackByPosterior ==
    \E i \in LexiconSteps :
        ~Steps[i].lex.filed /\ Steps[i].seen > 5

C10_HeldBackByCounter ==
    \E i \in LexiconSteps :
        /\ ~Steps[i].lex.filed
        /\ Steps[i].seen <= 5
        /\ PosteriorAboveThreshold(Steps[i].update.table)

---------------------------------------------------------------------------
(* The order of the steps inside learn_with_pursuit *)

\* the step made the word a lexicon word
FiledIn(i) == Steps[i].word \notin DOMAIN Steps[i].lexicon_before /\ Steps[i].meaning # {}

\* C11: the Lexicalizer runs only directly after an Updater call that reported
\* "confirmed"; a word is never moved into the Lexicon in the step that initializes
\* it nor in a step where its leading hypothesis was disconfirmed.
C11_LexicalizerOnlyAfterConfirmedUpdate ==
    \A i \in 1 .. Len(Steps) :
        /\ Steps[i].lex.called =>
              /\ Steps[i].kind = "learning"
              /\ Steps[i].update.branch = "reinforce"
              /\ Steps[i].update.confirmed
              /\ ExactWithSubgraph(Steps[i].update)
        /\ FiledIn(i) =>
              /\ Steps[i].lex.called
              /\ Steps[i].kind # "initialization"
              /\ Steps[i].update.branch \notin {"penalize", "relaxed", "random"}

\* a call in which the Lexicalizer ran after a confirmation, and in which an
\* Updater call that disconfirmed the leading hypothesis was not followed by it
C11_Witness ==
    /\ \E i \in 1 .. Len(Steps) : Steps[i].lex.called /\ Steps[i].update.confirmed
    /\ \E i \in 1 .. Len(Steps) :
          /\ Steps[i].kind = "learning"
          /\ ~Steps[i].update.confirmed
          /\ ~Steps[i].update.raised
          /\ ~Steps[i].lex.called

---------------------------------------------------------------------------
(* The Initializer *)

InitializationSteps == {i \in 1 .. Len(Steps) : Steps[i].kind = "initialization"}

\* the greatest score any word's dictionary holds for a pattern equal to m, 0 if none
Association(known, m) ==
    LET held == {sc \in UNION {{known[w][k].score : k \in {k \in 1 .. Len(known[w]) :
                                                      known[w][k].pat = m}} :
                               w \in DOMAIN known} : TRUE}
    IN  IF held = {} THEN Zero
        ELSE CHOOSE x \in held : \A y \in held : ~Less(x, y)

\* j is the first candidate of the scene with the least association
FirstLeastAssociated(known, objects, j) ==
    /\ \A k \in 1 .. Len(objects) :
          ~Less(Association(known, objects[k]), Association(known, objects[j]))
    /\ \A k \in 1 .. j - 1 :
          Less(Association(known, objects[j]), Association(known, objects[k]))

\* C12: for a word with no Hypothesis Table entry the Initializer creates a table
\* with exactly one entry, scored gamma, whose pattern is the candidate minimising
\* the maximum score of any isomorphic hypothesis of any word (0 when none), the
\* first in segmenter order among ties.
C12_InitializerPicksFirstLeastAssociated ==
    \A i \in InitializationSteps :
        ~Steps[i].raised =>
            LET objects == last_call.perception.objects
            IN  /\ Steps[i].word \notin DOMAIN Steps[i].known
                /\ Len(Steps[i].after) = 1
                /\ Steps[i].after[1].score = [n |-> 1, d |-> 4]
                /\ \E j \in 1 .. Len(objects) :
                      /\ Steps[i].after[1].pat = objects[j]
                      /\ FirstLeastAssociated(Steps[i].known, objects, j)

\* an initialization that passed over the first candidate, which another word holds,
\* and one in the same call that took the first of two tied candidates
C12_Witness ==
    /\ Len(last_call.perception.objects) = 2
    /\ \E i \in InitializationSteps :
          /\ ~Steps[i].raised
          /\ Steps[i].after[1].pat = last_call.perception.objects[2]
          /\ Less(Zero, Association(Steps[i].known, last_call.perception.objects[1]))
    /\ \E i \in InitializationSteps :
          /\ ~Steps[i].raised
          /\ Steps[i].after[1].pat = last_call.perception.objects[1]
          /\ Association(Steps[i].known, last_call.perception.objects[1])
                = Association(Steps[i].known, last_call.perception.objects[2])

---------------------------------------------------------------------------
(* describe *)

\* the last call was describe on a perception of one frame of the supported kind
DescribedSingleFrame ==
    /\ last_call.op = "describe"
    /\ last_call.perception.frames = <<"DevelopmentalPrimitivePerceptionFrame">>

\* the nodes of the scene of the last call
SceneGraph ==
    UNION {last_call.perception.objects[k] : k \in 1 .. Len(last_call.perception.objects)}

LexiconMatches == {w \in LexiconWords : lexicon[w] \subseteq SceneGraph}

\* the maximum score in a word's Hypothesis Table
LeadingScore(w) ==
    LET table == words_to_hypotheses_and_scores[w]
        scores == {table[k].score : k \in 1 .. Len(table)}
    IN  CHOOSE x \in scores : \A y \in scores : ~Less(x, y)

\* the pattern holding it (the first, if several do)
LeadingPattern(w) ==
    LET table == words_to_hypotheses_and_scores[w]
        k == CHOOSE k \in 1 .. Len(table) :
                /\ table[k].score = LeadingScore(w)
                /\ \A j \in 1 .. k - 1 : table[j].score # LeadingScore(w)
    IN  table[k].pat

LeadingMatches == {w \in HypothesisWords : LeadingPattern(w) \subseteq SceneGraph}

DescriptionOf(w) == <<"a", w>>

\* C13: if at least one lexicalized word's pattern matches the scene, describe
\* returns exactly the lexicalized words whose pattern matches, each with confidence
\* 1.0, and no still-hypothesizing word is emitted.
C13_DescribeReturnsMatchingLexiconWords ==
    (DescribedSingleFrame /\ LexiconMatches # {}) =>
        /\ ~last_call.raised
        /\ DOMAIN last_call.descriptions = {DescriptionOf(w) : w \in LexiconMatches}
        /\ \A w \in LexiconMatches :
              last_call.descriptions[DescriptionOf(w)] = [n |-> 1, d |-> 1]
        /\ \A w \in HypothesisWords :
              DescriptionOf(w) \notin DOMAIN last_call.descriptions

\* describe on a scene that a lexicalized pattern matches and the leading hypothesis
\* of a still-hypothesizing word matches too
C13_Witness ==
    /\ DescribedSingleFrame
    /\ LexiconMatches # {}
    /\ LeadingMatches # {}

\* C14 as stated: a word with no Lexicon entry whose leading hypothesis matches a new
\* scene is returned by describe on that scene with confidence equal to its current
\* leading score, not 1.0.
C14_HypothesizingWordIsDescribed ==
    DescribedSingleFrame =>
        \A w \in LeadingMatches :
            /\ w \notin LexiconWords
            /\ DescriptionOf(w) \in DOMAIN last_call.descriptions
            /\ last_call.descriptions[DescriptionOf(w)] = LeadingScore(w)
            /\ last_call.descriptions[DescriptionOf(w)] # [n |-> 1, d |-> 1]

\* C14 amended: the same, on a scene that no lexicalized word's pattern matches.
C14_HypothesizingWordIsDescribedInFallback ==
    (DescribedSingleFrame /\ LexiconMatches = {}) =>
        /\ ~last_call.raised
        /\ \A w \in LeadingMatches :
              /\ w \notin LexiconWords
              /\ DescriptionOf(w) \in DOMAIN last_call.descriptions
              /\ last_call.descriptions[DescriptionOf(w)] = LeadingScore(w)
              /\ last_call.descriptions[DescriptionOf(w)] # [n |-> 1, d |-> 1]

\* describe in the fallback: a lexicalized word that does not match the scene, a
\* hypothesizing word whose leading hypothesis does
C14_Witness ==
    /\ DescribedSingleFrame
    /\ LexiconWords # {}
    /\ LexiconMatches = {}
    /\ LeadingMatches # {}

\* C15: describe on a single-frame scene matched by no lexicalized pattern and by no
\* hypothesizing word's leading hypothesis returns an empty mapping and does not fail.
C15_DescribeNothingMatches ==
    (DescribedSingleFrame /\ LexiconMatches = {} /\ LeadingMatches = {}) =>
        /\ ~last_call.raised
        /\ DOMAIN last_call.descriptions = {}

\* describe by a learner that has a lexicalized and a hypothesizing word, on a scene
\* with objects that neither matches
C15_Witness ==
    /\ DescribedSingleFrame
    /\ SceneGraph # {}
    /\ LexiconWords # {}
    /\ HypothesisWords # {}
    /\ LexiconMatches = {}
    /\ LeadingMatches = {}

---------------------------------------------------------------------------
(* The life of a word *)

\* the Hypothesis Table and the Lexicon as step i of the last observe call left them
HypsAfter(i) ==
    IF i < Len(Steps) THEN Steps[i + 1].known ELSE words_to_hypotheses_and_scores

LexiconAfter(i) == IF i < Len(Steps) THEN Steps[i + 1].lexicon_before ELSE lexicon

\* no step of the Initializer, the Updater or the Lexicalizer ran in step i
RanNothing(i) ==
    /\ Steps[i].init = [raised |-> FALSE, table |-> <<>>, chosen |-> 0]
    /\ Steps[i].update.branch = "none"
    /\ ~Steps[i].lex.called

\* C16: once a word has a Lexicon entry, that entry is never replaced or removed by
\* a later observe call: later observations containing the word change only its
\* Observation Counter and run neither the Initializer, the Updater nor the
\* Lexicalizer for it.
C16_LexiconEntryIsFinal ==
    /\ \A w \in DOMAIN last_call.before.lexicon :
          w \in LexiconWords /\ lexicon[w] = last_call.before.lexicon[w]
    /\ \A i \in 1 .. Len(Steps) :
          Steps[i].word \in DOMAIN Steps[i].lexicon_before =>
              /\ RanNothing(i)
              /\ HypsAfter(i) = Steps[i].known
              /\ LexiconAfter(i) = Steps[i].lexicon_before
              /\ Steps[i].seen = words_to_number_of_observations[Steps[i].word]
                                 - Cardinality({j \in i + 1 .. Len(Steps) :
                                                   Steps[j].word = Steps[i].word})

\* an observe call in which a word that was lexicalized by an earlier call occurs
C16_Witness ==
    \E i \in 1 .. Len(Steps) :
        /\ Steps[i].word \in DOMAIN last_call.before.lexicon
        /\ Steps[i].seen > 6

\* C17: a word's status only moves forward through unseen -> hypothesizing ->
\* lexicalized: a Hypothesis Table entry is created only by the Initializer, its
\* contents change only in Updater calls for that word, it disappears only when the
\* Lexicalizer commits the word, and a lexicalized word never gets one again.
C17_StatusMovesForward ==
    /\ (last_call.op # "observe" \/ last_call.steps = <<>>) =>
          /\ words_to_hypotheses_and_scores = last_call.before.hyps
          /\ lexicon = last_call.before.lexicon
    /\ \A i \in 1 .. Len(Steps) :
          LET w == Steps[i].word
              known == Steps[i].known
              after == HypsAfter(i)
              lexb == Steps[i].lexicon_before
              lexa == LexiconAfter(i)
          IN  /\ \A v \in (DOMAIN known \cup DOMAIN after) \ {w} :
                    v \in DOMAIN known /\ v \in DOMAIN after /\ after[v] = known[v]
              /\ \A v \in (DOMAIN lexb \cup DOMAIN lexa) \ {w} :
                    v \in DOMAIN lexb /\ v \in DOMAIN lexa /\ lexa[v] = lexb[v]
              /\ (w \notin DOMAIN known /\ w \in DOMAIN after) =>
                    /\ Steps[i].kind = "initialization"
                    /\ after[w] = Steps[i].init.table
                    /\ w \notin DOMAIN lexb
              /\ (w \in DOMAIN known /\ w \in DOMAIN after /\ after[w] # known[w]) =>
                    /\ Steps[i].update.branch # "none"
                    /\ Steps[i].init = [raised |-> FALSE, table |-> <<>>, chosen |-> 0]
              /\ (w \in DOMAIN known /\ w \notin DOMAIN after) =>
                    /\ Steps[i].lex.filed
                    /\ w \in DOMAIN lexa
                    /\ w \notin DOMAIN lexb
              /\ w \in DOMAIN lexb => (w \in DOMAIN lexa /\ w \notin DOMAIN after)
              /\ (w \in DOMAIN lexa /\ w \notin DOMAIN lexb) => w \in DOMAIN known

\* an observe call that lexicalizes a word and meets the word again afterwards
C17_Witness ==
    \E i \in 1 .. Len(Steps) : \E j \in i + 1 .. Len(Steps) :
        /\ Steps[i].lex.filed
        /\ Steps[j].word = Steps[i].word
        /\ Steps[j].word \notin HypothesisWords

---------------------------------------------------------------------------
(* The Observation Counter and the determiners *)

CounterOf(counts, w) == IF w \in DOMAIN counts THEN counts[w] ELSE 0

\* C18: for every word, the Observation Counter equals the number of observations
\* (observe calls) in which the word appeared, whether the word was unseen,
\* hypothesizing or already lexicalized at the time; the counter never decreases.
C18_CounterCountsObserveCalls ==
    \A w \in {"ball", "box"} :
        /\ CounterOf(words_to_number_of_observations, w) = observe_calls_with[w]
        /\ CounterOf(words_to_number_of_observations, w)
              >= CounterOf(last_call.before.counts, w)

\* C19: the tokens "a" and "the" are never keys of the Observation Counter, the
\* Hypothesis Table or the Lexicon, after any sequence of observe calls.
C19_DeterminersAreNeverKeys ==
    {"a", "the"} \cap (DOMAIN words_to_number_of_observations
                       \cup HypothesisWords \cup LexiconWords) = {}

\* an observe call whose word sequence holds a determiner and a word that was learnt
C19_Witness ==
    /\ \E i \in 1 .. Len(Steps) : Steps[i].word \in {"a", "the"}
    /\ \E i \in 1 .. Len(Steps) :
          Steps[i].word \in DOMAIN words_to_number_of_observations
    /\ HypothesisWords # {}

---------------------------------------------------------------------------
(* Perceptions that are not handled *)

\* not exactly one frame, or a frame of an unsupported kind
NotOneSupportedFrame(frames) ==
    IF Len(frames) # 1 THEN TRUE
    ELSE frames[1] # "DevelopmentalPrimitivePerceptionFrame"

\* C20: observe and describe fail when the perception does not contain exactly one
\* frame or the frame is of an unsupported kind, and such a failing call leaves the
\* Hypothesis Table, the Lexicon and the Observation Counter exactly as they were.
C20_UnhandledPerceptionFailsWithoutChange ==
    (last_call.op \in {"observe", "describe"}
        /\ NotOneSupportedFrame(last_call.perception.frames)) =>
            /\ last_call.raised
            /\ words_to_hypotheses_and_scores = last_call.before.hyps
            /\ lexicon = last_call.before.lexicon
            /\ words_to_number_of_observations = last_call.before.counts

\* observe on a perception of two frames by a learner that has learnt something
C20_Witness ==
    /\ last_call.op = "observe"
    /\ Len(last_call.perception.frames) = 2
    /\ last_call.raised
    /\ LexiconWords # {}
    /\ words_to_number_of_observations # <<>>

\* describe failing on a frame of an unsupported kind
C20_DescribeFails ==
    /\ last_call.op = "describe"
    /\ last_call.perception.frames = <<"OtherFrame">>
    /\ last_call.raised
    /\ HypothesisWords # {}

---------------------------------------------------------------------------
(* Two learners fed alike *)

---------------------------------------------------------------------------
(* A word confirmed in every observation *)

\* the pattern the word starts from: the first candidate object of every scene
\* in which it is observed
InitialHypotheses == {scene.objects[1] : scene \in RepeatScenes}

\* the observe calls so far all held the word once and, after the first, every
\* update found its leading hypothesis matching exactly
ConfirmedEveryTime(w) ==
    /\ observe_calls_with[w] = observation_num
    /\ CounterOf(words_to_number_of_observations, w) = observation_num
    /\ last_call.op = "observe" =>
          \A i \in LearningSteps : Steps[i].word = w => Steps[i].update.branch = "reinforce"

\* C22: a word observed in consecutive observations (one occurrence each) in which
\* its leading hypothesis matches exactly every time, the lexicon entry threshold
\* being below 1, is in the Lexicon after the 6th observation and not before,
\* mapped to its initial hypothesis; from then on describe on any scene matched
\* by that pattern returns the word with confidence 1.0.
C22_LexicalizedAtSixthObservation ==
    (ConfirmedEveryTime("ball") /\ Less(lexicon_entry_threshold, One)) =>
        /\ "ball" \in LexiconWords <=> observation_num >= 6
        /\ "ball" \in LexiconWords => lexicon["ball"] \in InitialHypotheses
        /\ "ball" \in HypothesisWords =>
              /\ Len(words_to_hypotheses_and_scores["ball"]) = 1
              /\ words_to_hypotheses_and_scores["ball"][1].pat \in InitialHypotheses
        /\ (/\ last_call.op = "describe"
            /\ "ball" \in LexiconWords
            /\ matches(lexicon["ball"], SceneGraph)) =>
                /\ learned_description("ball") \in DOMAIN last_call.descriptions
                /\ last_call.descriptions[learned_description("ball")] = One

\* describe, after the seventh observation, on a scene that holds more than the
\* pattern the word was filed with
C22_Witness ==
    /\ observation_num = 7
    /\ ConfirmedEveryTime("ball")
    /\ last_call.op = "describe"
    /\ last_call.perception = Scene(<<{1, 2, 3}>>)
    /\ "ball" \in LexiconWords
    /\ learned_description("ball") \in DOMAIN last_call.descriptions

---------------------------------------------------------------------------
(* A leading score confirmed again and again, in double precision *)

\* the score has been reinforced at least once
Reinforced == score_near_one.before # -1

\* C23 as claimed: for a word whose leading hypothesis is confirmed in every
\* observation, with gamma strictly between 0 and 1, the leading score never
\* decreases, strictly increases while it is below 1.0, and never exceeds 1.0.
C23_ConfirmedScoreStrictlyIncreases ==
    (Reinforced /\ Less(Zero, learning_factor) /\ Less(learning_factor, One)) =>
        /\ score_near_one.ulps <= score_near_one.before
        /\ score_near_one.before > 0 => score_near_one.ulps < score_near_one.before
        /\ score_near_one.ulps >= 0

\* C23 (amended): under the same confirmations the leading score never decreases,
\* never exceeds 1.0, and strictly increases while it is more than two doubles
\* below 1.0, that is below 1 - 2^-52.
C23_ConfirmedScoreIncreasesUntilRounding ==
    (Reinforced /\ Less(Zero, learning_factor) /\ Less(learning_factor, One)) =>
        /\ score_near_one.ulps <= score_near_one.before
        /\ score_near_one.before > 2 => score_near_one.ulps < score_near_one.before
        /\ score_near_one.ulps >= 0

\* a confirmation that raised the score to 1 - 2^-52
C23_Witness ==
    /\ Reinforced
    /\ score_near_one.before = 3
    /\ score_near_one.ulps = 2

---------------------------------------------------------------------------
(* The range of the scores *)

InUnitInterval(x) == Leq(Zero, x) /\ Leq(x, One)

\* every score of a hypothesis dictionary
ScoresOf(table) == {table[j].score : j \in 1 .. Len(table)}

\* C24: with gamma in (0,1], every score stored in the Hypothesis Table lies in
\* [0,1] after any sequence of initializations, reinforcements, penalizations and
\* rewards.
C24_ScoresStayInUnitInterval ==
    (Less(Zero, learning_factor) /\ Leq(learning_factor, One)) =>
        /\ \A w \in HypothesisWords :
              \A x \in ScoresOf(words_to_hypotheses_and_scores[w]) : InUnitInterval(x)
        /\ \A i \in LearningSteps :
              \A x \in ScoresOf(Steps[i].update.weakened) \cup ScoresOf(Steps[i].update.table) :
                  InUnitInterval(x)

\* a word holding a hypothesis that was penalized below its initial score and
\* one that was rewarded above it, after an initialization, a reinforcement, a
\* penalization and a reward
C24_Witness ==
    /\ \E w \in HypothesisWords :
          /\ \E x \in ScoresOf(words_to_hypotheses_and_scores[w]) :
                Less(Zero, x) /\ Less(x, learning_factor)
          /\ \E x \in ScoresOf(words_to_hypotheses_and_scores[w]) :
                Less(learning_factor, x) /\ Less(x, One)
    /\ \E i \in LearningSteps : Steps[i].update.branch = "reinforce"

---------------------------------------------------------------------------
(* New hypotheses *)

\* hypothesis k marked for reward in update u is a pattern built in that step and
\* isomorphic to no entry of the word's dictionary
NewToTheWord(u, k) ==
    /\ u.to_reward[k].idx = 0
    /\ \A j \in 1 .. Len(u.weakened) :
          ~check_isomorphism(u.to_reward[k].pat, u.weakened[j].pat)

\* C25: a hypothesis marked for reward that is not isomorphic to any stored entry
\* of the word is inserted into the word's Hypothesis Table with score exactly
\* gamma (the reward formula applied to a default score of 0).
C25_NewHypothesisEntersWithGamma ==
    \A i \in LearningSteps :
        \A k \in 1 .. Len(Steps[i].update.to_reward) :
            NewToTheWord(Steps[i].update, k) =>
                LET u == Steps[i].update
                    last == Len(u.table)
                IN  /\ last = Len(u.weakened) + 1
                    /\ u.table[last].pat = u.to_reward[k].pat
                    /\ u.table[last].score = learning_factor
                    /\ u.table[last].score = RewardOf(Zero)
                    /\ \A j \in 1 .. Len(u.weakened) : u.table[j].pat = u.weakened[j].pat

\* an update that marked a new pattern for reward while the word held two
\* hypotheses already
C25_Witness ==
    \E i \in LearningSteps :
        /\ Len(Steps[i].update.weakened) >= 2
        /\ \E k \in 1 .. Len(Steps[i].update.to_reward) : NewToTheWord(Steps[i].update, k)
        /\ ~Steps[i].update.raised

---------------------------------------------------------------------------
(* A reward that falls on the leading hypothesis *)

\* update u disconfirmed the leading hypothesis and the pattern it then marked
\* for reward (the relaxed subgraph or the chosen object's pattern) is isomorphic
\* to the leading pattern
RewardsLeadingPattern(u) ==
    /\ u.branch \in {"relaxed", "random"}
    /\ check_isomorphism(u.to_reward[1].pat, u.weakened[u.leading].pat)

\* C26: when the relaxed subgraph (or the chosen object's pattern) marked for
\* reward is isomorphic to the leading pattern, the leading entry is first
\* penalized and then rewarded from its penalized score, ending at
\* s*(1-gamma) + gamma*(1 - s*(1-gamma)), and no new entry is inserted.
C26_LeadingPenalizedThenRewarded ==
    \A i \in LearningSteps :
        RewardsLeadingPattern(Steps[i].update) =>
            LET u == Steps[i].update
                score == Steps[i].before[u.leading].score
                lowered == Mul(score, Sub(One, learning_factor))
            IN  /\ u.weakened[u.leading].score = lowered
                /\ u.table[u.leading].score =
                      Add(lowered, Mul(learning_factor, Sub(One, lowered)))
                /\ Len(u.table) = Len(Steps[i].before)
                /\ \A j \in 1 .. Len(u.table) : u.table[j].pat = Steps[i].before[j].pat

\* such an update on a word that held two hypotheses
C26_Witness ==
    \E i \in LearningSteps :
        /\ RewardsLeadingPattern(Steps[i].update)
        /\ Len(Steps[i].before) >= 2
        /\ Steps[i].update.done[1].rewarded

---------------------------------------------------------------------------
(* A match object without nodes *)

\* in update u the engine answered the match of a non-empty leading pattern with
\* a match object of zero nodes
ZeroNodeMatch(u) ==
    /\ EmptyMatchObject(u)
    /\ u.partial_match.num_nodes_in_pattern > 0

\* the update was a disconfirmation: the leading hypothesis penalized, "not
\* confirmed" returned
TreatedAsDisconfirmation(i) ==
    LET u == Steps[i].update
        before == Steps[i].before
    IN  /\ ~u.confirmed
        /\ u.branch # "reinforce"
        /\ u.weakened = [before EXCEPT ![u.leading].score = PenaltyOf(before[u.leading].score)]
        /\ u.table[u.leading].pat = before[u.leading].pat

\* C27 as claimed: when the Pattern Matching Engine returns a match object with
\* zero matched nodes for a non-empty leading pattern, the Updater does not fail:
\* it treats the step as a disconfirmation, penalizes the leading hypothesis and
\* returns "not confirmed".
C27_ZeroNodeMatchNeverFails ==
    \A i \in LearningSteps :
        ZeroNodeMatch(Steps[i].update) =>
            ~Steps[i].update.raised /\ TreatedAsDisconfirmation(i)

\* C27 (amended): the same, for a scene in which the Scene Segmenter finds at
\* least one candidate object.
C27_ZeroNodeMatchIsDisconfirmation ==
    \A i \in LearningSteps :
        (/\ ZeroNodeMatch(Steps[i].update)
         /\ get_objects_from_perception(last_call.perception) # <<>>) =>
            ~Steps[i].update.raised /\ TreatedAsDisconfirmation(i)

\* a match object without nodes for a leading pattern of two nodes, on a scene
\* with two candidate objects
C27_Witness ==
    \E i \in LearningSteps :
        /\ ZeroNodeMatch(Steps[i].update)
        /\ Steps[i].update.partial_match.num_nodes_in_pattern = 2
        /\ Len(get_objects_from_perception(last_call.perception)) = 2
        /\ Steps[i].update.branch = "random"

---------------------------------------------------------------------------
(* Partial match results *)

\* the patterns a hypothesis dictionary can hold: those of the stored
\* dictionaries and of the dictionaries the last call passed through
StoredPatterns ==
    UNION {{words_to_hypotheses_and_scores[w][j].pat :
               j \in 1 .. Len(words_to_hypotheses_and_scores[w])} : w \in HypothesisWords}
    \cup UNION {{Steps[i].before[j].pat : j \in 1 .. Len(Steps[i].before)} :
                   i \in LearningSteps}
    \cup UNION {{Steps[i].update.table[j].pat : j \in 1 .. Len(Steps[i].update.table)} :
                   i \in LearningSteps}

\* the partial match results of the last call: of the leading hypothesis on the
\* scene in every update
LeadingMatchResults == {Steps[i].update.partial_match : i \in LearningSteps}

\* the ratios of the word's hypotheses on the chosen object, in every update that
\* chose one
ObjectRatios ==
    UNION {{Steps[i].update.ratios[j] : j \in 1 .. Len(Steps[i].update.ratios)} :
              i \in LearningSteps}

\* C28: every Partial Match Result computed by the learner has match_ratio in
\* [0,1], and matched_exactly holds only when match_ratio is 1.0; computing the
\* ratio never fails for any pattern that can be stored in a Hypothesis Table.
C28_MatchRatioInUnitInterval ==
    /\ \A pattern \in StoredPatterns : Cardinality(pattern) > 0
    /\ \A pm \in LeadingMatchResults :
          /\ pm.num_nodes_in_pattern > 0
          /\ InUnitInterval(match_ratio(pm))
          /\ matched_exactly(pm) => match_ratio(pm) = One
    /\ \A ratio \in ObjectRatios : InUnitInterval(ratio)

\* an update whose leading pattern matched in part, and the ratios of two
\* hypotheses on a chosen object
C28_Witness ==
    \E i \in LearningSteps :
        /\ Less(Zero, match_ratio(Steps[i].update.partial_match))
        /\ Less(match_ratio(Steps[i].update.partial_match), One)
        /\ \E k \in LearningSteps : Len(Steps[k].update.ratios) >= 2

---------------------------------------------------------------------------
(* Words that are new in the same observation *)

\* the patterns held, for any word, by the hypothesis dictionaries `hyps`
PatternsIn(hyps) ==
    UNION {{hyps[w][j].pat : j \in 1 .. Len(hyps[w])} : w \in DOMAIN hyps}

\* the candidate objects of the observed scene that are isomorphic to no
\* hypothesis stored when the call began
UnstoredCandidates ==
    {from_graph(last_call.perception.objects[k]) :
        k \in 1 .. Len(last_call.perception.objects)} \ PatternsIn(last_call.before.hyps)

\* steps i < j of the last call initialized two different words, neither of
\* which had a dictionary when the call began, on a scene with two candidate
\* objects that are not isomorphic to each other nor to any stored hypothesis
NewTogether(i, j) ==
    /\ i < j
    /\ Steps[i].kind = "initialization" /\ ~Steps[i].raised
    /\ Steps[j].kind = "initialization" /\ ~Steps[j].raised
    /\ Steps[i].word # Steps[j].word
    /\ {Steps[i].word, Steps[j].word} \cap DOMAIN last_call.before.hyps = {}
    /\ Cardinality(UnstoredCandidates) >= 2

\* the pattern step i initialized its word with
InitialHypothesis(i) == Steps[i].init.table[1].pat

---------------------------------------------------------------------------
(* The hypothesis that is filed *)

\* several entries of the dictionary hold its greatest score
TiedForTheLead(table) ==
    \E j, k \in 1 .. Len(table) :
        /\ j # k
        /\ table[j].score = table[k].score
        /\ \A m \in 1 .. Len(table) : Leq(table[m].score, table[j].score)

\* C30: the pattern committed to the Lexicon for a word is the very hypothesis
\* that the Updater selected as leading and reinforced in the same step: the
\* leading entry recomputed by the Lexicalizer is the same entry, also when
\* several entries tie for the maximum score.
C30_FiledPatternIsTheReinforcedOne ==
    \A i \in LexiconSteps :
        LET u == Steps[i].update
        IN  /\ u.branch = "reinforce"
            /\ Steps[i].lex.leading = u.leading
            /\ u.table[u.leading].score = RewardOf(Steps[i].before[u.leading].score)
            /\ Steps[i].lex.filed =>
                  /\ Steps[i].word \in LexiconWords
                  /\ lexicon[Steps[i].word] = Steps[i].before[u.leading].pat
                  /\ Steps[i].meaning = u.table[u.leading].pat

\* a word filed from a dictionary of two hypotheses
C30_Witness ==
    \E i \in LexiconSteps :
        /\ Steps[i].lex.filed
        /\ Len(Steps[i].before) >= 2
        /\ Steps[i].update.leading = 1

\* the Lexicalizer consulted for a word whose hypotheses tied for the lead when
\* the Updater chose among them
C30_TiedLead ==
    \E i \in LexiconSteps : TiedForTheLead(Steps[i].before)

---------------------------------------------------------------------------
(* The hypotheses of a word only grow *)

\* C31: every word that is a key of the Hypothesis Table has at least one
\* hypothesis, and while a word stays hypothesizing its set of hypotheses only
\* grows: an Updater call adds at most one new entry and removes none.
C31_HypothesesOnlyGrow ==
    /\ \A w \in HypothesisWords : Len(words_to_hypotheses_and_scores[w]) >= 1
    /\ \A i \in LearningSteps :
          LET before == Steps[i].before
              table == Steps[i].update.table
          IN  /\ Len(before) >= 1
              /\ Len(table) >= Len(before)
              /\ Len(table) <= Len(before) + 1
              /\ \A j \in 1 .. Len(before) : table[j].pat = before[j].pat
              /\ Steps[i].after # <<>> => Steps[i].after = table

\* an Updater call that added a third hypothesis to a word that stays
\* hypothesizing
C31_Witness ==
    \E i \in LearningSteps :
        /\ Len(Steps[i].before) = 2
        /\ Len(Steps[i].update.table) = 3
        /\ Steps[i].word \in HypothesisWords

---------------------------------------------------------------------------
(* What a confirmation changes *)

\* C32: a confirming Updater call changes only the score of the leading
\* hypothesis: every other entry of the word keeps its score, no entry is
\* inserted, and the random generator is not advanced.
C32_ConfirmationChangesLeadingScoreOnly ==
    \A i \in LearningSteps :
        Steps[i].update.confirmed =>
            LET u == Steps[i].update
                before == Steps[i].before
            IN  /\ Len(u.table) = Len(before)
                /\ \A j \in 1 .. Len(before) :
                      /\ u.table[j].pat = before[j].pat
                      /\ j # u.leading => u.table[j].score = before[j].score
                /\ u.rng = u.rng_before
                /\ ~u.raised

\* a confirmation for a word of two hypotheses, by a learner whose generator has
\* been drawn from
C32_Witness ==
    \E i \in LearningSteps :
        /\ Steps[i].update.confirmed
        /\ Len(Steps[i].before) >= 2
        /\ Steps[i].update.rng_before \notin Seeds

---------------------------------------------------------------------------
(* What the processing of one word leaves alone *)

\* the hypothesis dictionaries and the lexicon as step i of the last call left
\* them: as the next step found them, or as they are now
HypsAfterStep(i) ==
    IF i < Len(Steps) THEN Steps[i + 1].known ELSE words_to_hypotheses_and_scores

LexiconAfterStep(i) ==
    IF i < Len(Steps) THEN Steps[i + 1].lexicon_before ELSE lexicon

\* the entry of w in the mapping f, with <<"none">> for a missing key
EntryOf(f, w) == IF w \in DOMAIN f THEN <<"some", f[w]>> ELSE <<"none">>

\* the steps of the last call that counted an occurrence of w
CountedSteps(w) ==
    {i \in 1 .. Len(Steps) : Steps[i].word = w /\ Steps[i].kind # "determiner"}

\* C33: processing a word w in observe (Initializer, Updater or Lexicalizer) leaves
\* the Hypothesis Table entries, Lexicon entries and Observation Counters of every
\* other word unchanged, and the Updater's result for w depends only on w's own
\* table, the scene and the random draw, not on any other word's state.
C33_OtherWordsUntouched ==
    last_call.op = "observe" =>
        /\ \A i \in 1 .. Len(Steps) : \A w \in Words \ {Steps[i].word} :
              /\ EntryOf(HypsAfterStep(i), w) = EntryOf(Steps[i].known, w)
              /\ EntryOf(LexiconAfterStep(i), w) = EntryOf(Steps[i].lexicon_before, w)
        /\ \A w \in Words :
              CounterOf(words_to_number_of_observations, w)
                  = CounterOf(last_call.before.counts, w) + Cardinality(CountedSteps(w))
        /\ \A i, j \in LearningSteps :
              (/\ Steps[i].before = Steps[j].before
               /\ Steps[i].update.rng_before = Steps[j].update.rng_before) =>
                  Steps[i].update = Steps[j].update

\* a call in which two words with equal tables were updated, the first before
\* and the second after the other's table had changed
C33_Witness ==
    /\ \E i, j \in LearningSteps :
          /\ Steps[i].word # Steps[j].word
          /\ Steps[i].before = Steps[j].before
          /\ Steps[i].update.rng_before = Steps[j].update.rng_before
          /\ Steps[i].known # Steps[j].known
    /\ HypothesisWords # {}

---------------------------------------------------------------------------
(* The draws from the random generator *)

\* the Updater calls of the last call that took the random-choice fallback and
\* drew
RandomChoices ==
    {i \in LearningSteps : Steps[i].update.branch = "random"}

\* the generator's state when step i of the last call began, if no step but an
\* Updater call moves it: as the last Updater call before i left it
GeneratorBefore(i) ==
    LET earlier == {k \in LearningSteps : k < i}
    IN  IF earlier = {} THEN last_call.before.rng
        ELSE Steps[CHOOSE k \in earlier : \A m \in earlier : m <= k].update.rng

\* C34: the learner's random generator is advanced by exactly one draw in each
\* Updater call that takes the random-choice fallback, and by nothing else: not
\* by the Initializer, a confirmation, the relaxed-match rule, the Lexicalizer or
\* describe.
C34_OneDrawPerRandomChoice ==
    /\ last_call.op = "describe" => rng = last_call.before.rng
    /\ last_call.op = "observe" =>
          /\ rng = last_call.before.rng + Cardinality(RandomChoices)
          /\ \A i \in LearningSteps :
                /\ Steps[i].update.rng_before = GeneratorBefore(i)
                /\ Steps[i].update.rng =
                      Steps[i].update.rng_before + (IF i \in RandomChoices THEN 1 ELSE 0)
          /\ rng = GeneratorBefore(Len(Steps) + 1)

\* an observe call with a random choice and with a confirmation after which the
\* Lexicalizer ran
C34_Witness ==
    /\ last_call.op = "observe"
    /\ RandomChoices # {}
    /\ LexiconSteps # {}
    /\ rng \notin Seeds

\* describe by a learner whose generator has been drawn from
C34_DescribeDrawsNothing ==
    /\ last_call.op = "describe"
    /\ ~last_call.raised
    /\ rng \notin Seeds
    /\ last_call.descriptions # <<>>

---------------------------------------------------------------------------
(* describe reads only *)

\* C35: describe never changes the Hypothesis Table, the Lexicon, the Observation
\* Counter or the random generator, so two consecutive describe calls on the
\* same scene return the same mapping.
C35_DescribeReadsOnly ==
    last_call.op = "describe" =>
        /\ words_to_hypotheses_and_scores = last_call.before.hyps
        /\ lexicon = last_call.before.lexicon
        /\ words_to_number_of_observations = last_call.before.counts
        /\ rng = last_call.before.rng
        /\ last_call.again => last_call.descriptions = last_call.earlier

\* the second of two describe calls on a scene, returning the leading score of a
\* hypothesizing word
C35_Witness ==
    /\ last_call.op = "describe"
    /\ last_call.again
    /\ last_call.descriptions # <<>>
    /\ \E d \in DOMAIN last_call.descriptions : last_call.descriptions[d] # One
    /\ rng \notin Seeds

---------------------------------------------------------------------------
(* observe calls that fail for want of a candidate object *)

InHypotheses(t, w) == w \in DOMAIN t.hyps
InLexicon(t, w) == w \in DOMAIN t.lexicon

\* the step at which the last call raised
FailedStep == Steps[Len(Steps)]

\* the last call was an observe call that raised inside learn_with_pursuit
FailedInLearning ==
    last_call.op = "observe" /\ last_call.raised /\ Steps # <<>>

\* C36 (as claimed): after any sequence of observe calls, including calls that fail
\* because the Scene Segmenter returns no candidate object, every word with a
\* positive Observation Counter is a key of exactly one of the Hypothesis Table and
\* the Lexicon, and a word's scores are changed by an observe call only if that
\* call completes.
C36_CountedWordsHaveOneTable ==
    /\ \A w \in DOMAIN words_to_number_of_observations :
          words_to_number_of_observations[w] > 0 =>
              (InHypotheses(Tables, w) # InLexicon(Tables, w))
    /\ FailedInLearning =>
          words_to_hypotheses_and_scores = last_call.before.hyps

\* C36 (amended): every word with a positive Observation Counter is a key of at
\* most one of the Hypothesis Table and the Lexicon; it is a key of neither only
\* if it was a key of neither before the last call and that call either did not
\* count it or failed in its Initializer, leaving the counter incremented; a
\* failing observe call changes no score except that a call failing in the
\* Updater leaves the leading hypothesis of the word it failed at penalized.
C36_FailedCallsLeaveCounterAndPenalty ==
    /\ \A w \in DOMAIN words_to_number_of_observations :
          words_to_number_of_observations[w] > 0 =>
              /\ ~(InHypotheses(Tables, w) /\ InLexicon(Tables, w))
              /\ (~InHypotheses(Tables, w) /\ ~InLexicon(Tables, w)) =>
                    /\ ~InHypotheses(last_call.before, w)
                    /\ ~InLexicon(last_call.before, w)
                    /\ \/ words_to_number_of_observations[w]
                              = CounterOf(last_call.before.counts, w)
                       \/ /\ FailedInLearning
                          /\ FailedStep.word = w
                          /\ FailedStep.kind = "initialization"
                          /\ FailedStep.raised
                          /\ get_objects_from_perception(last_call.perception) = <<>>
                          /\ words_to_number_of_observations[w]
                                = CounterOf(last_call.before.counts, w) + 1
    /\ FailedInLearning =>
          /\ lexicon = last_call.before.lexicon
          /\ DOMAIN words_to_hypotheses_and_scores = DOMAIN last_call.before.hyps
          /\ \A w \in DOMAIN words_to_hypotheses_and_scores :
                LET now == words_to_hypotheses_and_scores[w]
                    was == last_call.before.hyps[w]
                IN  /\ Len(now) = Len(was)
                    /\ \A i \in 1 .. Len(now) :
                          /\ now[i].pat = was[i].pat
                          /\ now[i].score =
                                IF /\ FailedStep.kind = "learning"
                                   /\ FailedStep.word = w
                                   /\ i = leading_index(was)
                                THEN PenaltyOf(was[i].score)
                                ELSE was[i].score

\* a call that failed in the Updater after penalizing, while another counted word
\* has neither a dictionary nor a lexicon entry
C36_Witness ==
    /\ FailedInLearning
    /\ FailedStep.kind = "learning"
    /\ words_to_hypotheses_and_scores # last_call.before.hyps
    /\ \E w \in DOMAIN words_to_number_of_observations :
          /\ words_to_number_of_observations[w] > 0
          /\ ~InHypotheses(Tables, w) /\ ~InLexicon(Tables, w)

---------------------------------------------------------------------------
(* the candidate objects of a perception graph *)

\* C37: get_objects_from_perception terminates on every finite perception graph,
\* including graphs whose partOf edges form a cycle among the parts below a root
\* object, and returns exactly one candidate subgraph per object perception that
\* is not the ground and has no outgoing partOf edge.
C37_SegmenterTerminates ==
    /\ <>(segmentation.pc = "returned")
    /\ [](segmentation.pc = "returned" =>
            LET unattached ==
                    {n \in ObjectPerceptions \ {GROUND} :
                        ~\E m \in segmentation.graph.nodes :
                            <<n, m, "partOf">> \in segmentation.graph.edges}
            IN  /\ Len(segmentation.meanings) = Cardinality(unattached)
                /\ \A n \in unattached :
                      \E i \in 1 .. Len(segmentation.meanings) :
                          /\ segmentation.meanings[i].root = n
                          /\ n \in segmentation.meanings[i].nodes)

\* C37 (what holds): a call that returns has appended one candidate per object
\* perception that is not the ground and has no outgoing partOf edge, in the
\* order of the node list.
C37_ReturnedCandidatesAreTheRoots ==
    segmentation.pc = "returned" =>
        /\ Len(segmentation.meanings) = Len(segmentation.roots)
        /\ \A i \in 1 .. Len(segmentation.meanings) :
              /\ segmentation.meanings[i].root = segmentation.roots[i]
              /\ segmentation.roots[i] \in ObjectPerceptions \ {GROUND}
              /\ ~\E e \in segmentation.graph.edges :
                     e[1] = segmentation.roots[i] /\ e[3] = "partOf"
        /\ \A n \in ObjectPerceptions \ {GROUND} :
              (~\E e \in segmentation.graph.edges : e[1] = n /\ e[3] = "partOf")
                  => \E i \in 1 .. Len(segmentation.roots) : segmentation.roots[i] = n

\* the walk has come round a partOf cycle below root 1: the parts 2 and 3, each
\* part of the other, are in the frontier in turn
C37_WalksRoundTheCycle ==
    /\ segmentation.pc = "while"
    /\ segmentation.roots = <<1>>
    /\ segmentation.frontier = {2}
    /\ segmentation.all_object_perception_nodes = {1, 2, 3}

---------------------------------------------------------------------------
(* pickling the objects there is one of *)

\* C38: pickling round-trip of shared singletons: for every object for which
\* AdamPickler.persistent_id returns a non-None id (shared-world GeonAxis, the
\* ground perception, the learner perception), AdamUnpickler.persistent_load
\* applied to that id returns that same object and does not raise.
C38_PersistentObjectsRoundTrip ==
    /\ ~pickling.raised
    /\ \A i \in 1 .. Len(pickling.loaded) :
          persistent_id(pickling.dumped[i]) # None =>
              pickling.loaded[i] = pickling.dumped[i]

\* C38 (what holds): the shared axes and the ground perception come back as the
\* same objects; the only persistent id that persistent_load rejects is the
\* learner perception's.
C38_AxesAndGroundRoundTrip ==
    /\ \A i \in 1 .. Len(pickling.loaded) : pickling.loaded[i] = pickling.dumped[i]
    /\ pickling.raised =>
          pickling.dumped[Len(pickling.loaded) + 1] = LEARNER_PERCEPTION

\* the unpickler has raised on the learner perception's id after loading a
\* shared axis and the ground perception
C38_LearnerPerceptionRejected ==
    /\ pickling.raised
    /\ pickling.dumped = <<GRAVITATIONAL_UP, GROUND_PERCEPTION, LEARNER_PERCEPTION>>
    /\ pickling.loaded = <<GRAVITATIONAL_UP, GROUND_PERCEPTION>>

---------------------------------------------------------------------------
(* observe on a perception it rejects *)

\* the last call was an observe call that failed the check of the frames
FailedFrameCheck ==
    /\ last_call.op = "observe"
    /\ last_call.raised
    /\ ~perception_is_handled(last_call.perception.frames)

\* C39: an observe call that fails the single-frame / supported-kind check
\* mutates no learner state at all before failing, including the learner's
\* internal observation sequence number (_observation_num).
C39_FailedCheckMutatesNothing ==
    FailedFrameCheck =>
        /\ words_to_hypotheses_and_scores = last_call.before.hyps
        /\ lexicon = last_call.before.lexicon
        /\ words_to_number_of_observations = last_call.before.counts
        /\ rng = last_call.before.rng
        /\ observation_num = last_call.before.observation_num

\* C39 (what holds): such a call leaves the tables, the counters and the generator
\* and has advanced the observation number by one.
C39_FailedCheckCountsTheObservation ==
    FailedFrameCheck =>
        /\ words_to_hypotheses_and_scores = last_call.before.hyps
        /\ lexicon = last_call.before.lexicon
        /\ words_to_number_of_observations = last_call.before.counts
        /\ rng = last_call.before.rng
        /\ observation_num = last_call.before.observation_num + 1

\* a rejected observe call on a learner that holds hypotheses
C39_RejectedAfterLearning ==
    /\ FailedFrameCheck
    /\ words_to_hypotheses_and_scores # <<>>
    /\ Len(last_call.perception.frames) = 2

====
